---- MODULE Spec2Model ----
(***************************************************************************)
(* Decoders of the neural-data records (binary SD files and BLE log lines) *)
(* and the timestamp reconciliation of decode_binary_files, process_files  *)
(* and the analysis of main, and parse_log_file.                           *)
(*                                                                         *)
(* Numbers: a cell of a row is the exact rational n / d, written           *)
(* [n |-> n, d |-> d]: an integer k is k / 1, k / 1000.0 is k / 1000 and   *)
(* k * 0.195 is (k * 195) / 1000.  The float64 arithmetic of the snippet   *)
(* selection on the timestamp column is modelled with its rounding.  The   *)
(* model checker's integers are 32 bits wide, so the inputs keep the top   *)
(* bits of the hardware timestamp clear.                                   *)
(***************************************************************************)
EXTENDS Integers, Sequences, FiniteSets, TLC

VARIABLES
    func,               \* the function being run
    variant,            \* the script the function belongs to
    pc,                 \* position in the function
    listing,            \* what glob.glob returned (filesystem order)
    bin_files,          \* the sorted list the for loop walks
    file_idx,           \* number of files opened so far
    binary_data,        \* the buffer of the latest read (data_bytes for a log line)
    channel_data,       \* the 16 integers unpacked from the latest record
    timestamp,          \* the integer unpacked from the latest record
    base_timestamp_ms,
    last_timestamp_ms,
    all_rows,           \* rows decoded so far
    row_src,            \* history: for each row, the file and the bytes it came from
    lines_seen,         \* history: the log lines consumed so far
    report,             \* what the latest read made the function print or log
    stale,              \* history: an earlier call left a nonzero reconciler state
    output_file,        \* the CSV file at output_file
    source,             \* the bytes of the files of input_folder, which no step changes
    log_file,           \* parse_log_file: what is at the path log_file
    all_events,         \* parse_log_file: the event times read so far
    timestamps,         \* parse_log_file: the event times of the snippet
    csv_files,          \* the output folder: the CSV file at each path
    unit_idx,           \* process_files: number of units of the mapping visited
    unit_inputs,        \* history: what each visited unit found at its input path
    files_processed,
    expected_failed_created,
    unexpected_failed_files,
    expected_packets,   \* main: expected packets per sampling frequency
    args_list,          \* the tasks of pool.map no worker has taken yet
    pool,               \* the worker processes: task and local variables of each
    results,            \* what the workers returned, per task
    throughput_data,
    packet_loss_data,
    average_time_data

\* the bytes of the source, and the variables of process_files and of the
\* analysis of main
mainvars == <<source, log_file, all_events, timestamps, csv_files, unit_idx, unit_inputs, files_processed,
              expected_failed_created, unexpected_failed_files,
              expected_packets, args_list, pool, results, throughput_data,
              packet_loss_data, average_time_data>>

vars == <<func, variant, pc, listing, bin_files, file_idx, binary_data,
          channel_data, timestamp, base_timestamp_ms, last_timestamp_ms,
          all_rows, row_src, lines_seen, report, stale, output_file, source,
          log_file, all_events, timestamps,
          csv_files, unit_idx, unit_inputs, files_processed,
          expected_failed_created, unexpected_failed_files,
          expected_packets, args_list, pool, results, throughput_data,
          packet_loss_data, average_time_data>>

----------------------------------------------------------------------------
(* Program constants *)

MAX_CHANNELS == 16
RECORD_SIZE == 36
CHANNEL_BYTES == 32
ADC_SCALE_FACTOR == 195

BINARYDECODER == "binarydecoder"
PND == "process_neural_data"
PND2 == "process_neural_data2"
TEST_BLE == "test_ble_log_decoding"

SNIPPET_DURATION(v) == IF v = PND2 THEN 10 ELSE 5

----------------------------------------------------------------------------
(* Bounds of the model *)

MaxRows == 4
MaxLines == 3

PLOT == "plot_attribute_deviation"

\* parse_log_file is not running
PlotIdle ==
    /\ log_file = <<>>
    /\ all_events = <<>>
    /\ timestamps = <<>>

----------------------------------------------------------------------------
(* Python helpers *)

Min(a, b) == IF a < b THEN a ELSE b

\* s[lo:hi]
PySlice(s, lo, hi) ==
    IF lo >= Min(hi, Len(s)) THEN <<>> ELSE SubSeq(s, lo + 1, Min(hi, Len(s)))

\* The items struct.unpack reads off a buffer, two bytes each, low byte first.
RECURSIVE UnpackShorts(_, _)
UnpackShortsSwapped(buf, signed) ==
    IF Len(buf) < 2 THEN <<>>
    ELSE LET v == 256 * buf[1] + buf[2]
         IN  <<IF signed /\ v >= 32768 THEN v - 65536 ELSE v>>
                 \o UnpackShorts(SubSeq(buf, 3, Len(buf)), signed)
UnpackShorts(buf, signed) ==
    IF Len(buf) < 2 THEN <<>>
    ELSE LET v == buf[1] + 256 * buf[2]
         IN  <<IF signed /\ v >= 32768 THEN v - 65536 ELSE v>>
                 \o UnpackShorts(SubSeq(buf, 3, Len(buf)), signed)

\* struct.unpack raises struct.error unless the buffer has the format's size
StructRaises(size, buf) == Len(buf) # size

\* struct.unpack('<16h', buf) and struct.unpack('<16H', buf), buf of 32 bytes
Unpack16(buf, signed) == UnpackShorts(buf, signed)

\* struct.unpack('<I', buf)[0], buf of 4 bytes
UnpackI(buf) == buf[1] + 256 * buf[2] + 65536 * buf[3] + 16777216 * buf[4]

Signed(v) == v # BINARYDECODER

\* channel_data as unpacked from the record
UnpackChannels(v, buf) == Unpack16(PySlice(buf, 0, CHANNEL_BYTES), Signed(v))
UnpackTimestamp(buf) == UnpackI(PySlice(buf, CHANNEL_BYTES, Len(buf)))

\* whether unpacking the record raises struct.error
UnpackRaises(buf) ==
    \/ StructRaises(CHANNEL_BYTES, PySlice(buf, 0, CHANNEL_BYTES))
    \/ StructRaises(4, PySlice(buf, CHANNEL_BYTES, Len(buf)))

\* [value * ADC_SCALE_FACTOR for value in channel_data], or list(channel_data)
ScaleChannelsEveryMode(v, ch) ==
    [k \in 1..Len(ch) |-> [n |-> ch[k] * ADC_SCALE_FACTOR, d |-> 1000]]
ScaleChannels(v, ch) ==
    [k \in 1..Len(ch) |-> IF v = BINARYDECODER THEN [n |-> ch[k], d |-> 1]
                          ELSE [n |-> ch[k] * ADC_SCALE_FACTOR, d |-> 1000]]

\* Lines 92-98 of decode_binary_files: one step of the reconciler.
ReconcileNoOffset(base, last, t) ==
    [base_timestamp_ms |-> base,
     timestamp_total_ms |-> t,
     last_timestamp_ms |-> t]
ReconcileRawLast(base, last, t) ==
    LET b == IF t < last THEN base + last ELSE base
    IN  [base_timestamp_ms |-> b,
         timestamp_total_ms |-> t + b,
         last_timestamp_ms |-> t]
ReconcileOnEqual(base, last, t) ==
    LET b == IF t <= last THEN base + last ELSE base
    IN  [base_timestamp_ms |-> b,
         timestamp_total_ms |-> t + b,
         last_timestamp_ms |-> t + b]
Reconcile(base, last, t) ==
    LET b == IF t < last THEN base + last ELSE base
        timestamp_total_ms == t + b
    IN  [base_timestamp_ms |-> b,
         timestamp_total_ms |-> timestamp_total_ms,
         last_timestamp_ms |-> timestamp_total_ms]

\* Lines 75-76: the reconciler state a call of decode_binary_files starts
\* with, whatever an earlier call left (base, last).
SequenceStartStateKept(base, last) ==
    [base_timestamp_ms |-> base, last_timestamp_ms |-> last]
SequenceStartState(base, last) ==
    [base_timestamp_ms |-> 0, last_timestamp_ms |-> 0]

\* The first cell of a row of decode_binary_files.
BinTimestampCell(v, t, total) ==
    CASE v = BINARYDECODER -> [n |-> t, d |-> 1]    \* row = [timestamp] + ...
      [] v = PND -> [n |-> t, d |-> 1000]           \* timestamp / 1000.0
      [] OTHER -> [n |-> total, d |-> 1000]         \* timestamp_total_ms / 1000.0

\* The first cell of a row of decode_ble_log.
BleTimestampCell(v, t) ==
    IF v = PND2 THEN [n |-> t, d |-> 1000]          \* ble_timestamp / 1000.0
    ELSE [n |-> t, d |-> 1]                         \* row = [ble_timestamp] + ...

\* row = [timestamp] + channel_data
MakeRowTimestampLast(cell, scaled) == scaled \o <<cell>>
MakeRow(cell, scaled) == <<cell>> \o scaled

\* The row decode_binary_files builds from a whole record, the reconciler
\* state being (base, last).
BinRow(v, rec, base, last) ==
    LET t == UnpackTimestamp(rec)
    IN  MakeRow(BinTimestampCell(v, t, Reconcile(base, last, t).timestamp_total_ms),
                ScaleChannels(v, UnpackChannels(v, rec)))

\* The row decode_ble_log builds from the 36 bytes of a line.
BleRow(v, data_bytes) ==
    MakeRow(BleTimestampCell(v, UnpackTimestamp(data_bytes)),
            ScaleChannels(v, UnpackChannels(v, data_bytes)))

----------------------------------------------------------------------------
(* File names data_<digits>.bin, written as their digits, and the sort.    *)
(* The folder part of the path is taken to hold no text that data_(\d+).bin *)
(* matches, so the key is read off the file name.                          *)

RECURSIVE ParseInt(_)
\* int(re.search(r'data_(\d+).bin', x).group(1)); int(x.split('_')[-1].split('.')[0])
ParseInt(digits) ==
    IF digits = <<>> THEN 0
    ELSE 10 * ParseInt(SubSeq(digits, 1, Len(digits) - 1)) + digits[Len(digits)]

FileKey(name) == ParseInt(name)

RECURSIVE InsertByKey(_, _)
\* x goes behind every element whose key is not larger (sorted is stable)
InsertByKey(x, s) ==
    IF s = <<>> THEN <<x>>
    ELSE IF FileKey(s[Len(s)]) <= FileKey(x) THEN Append(s, x)
    ELSE Append(InsertByKey(x, SubSeq(s, 1, Len(s) - 1)), s[Len(s)])

RECURSIVE SortFiles(_)
SortFilesGlobOrder(l) == l
SortFiles(l) ==
    IF l = <<>> THEN <<>>
    ELSE InsertByKey(l[Len(l)], SortFiles(SubSeq(l, 1, Len(l) - 1)))

----------------------------------------------------------------------------
(* Snippet selection and the output file *)

AbsentFile == [kind |-> "absent", rows |-> <<>>]
HeaderOnly == [kind |-> "table", rows |-> <<>>]
\* create_failed_csv: the header status and the row failed
FailedCsv == [kind |-> "failed", rows |-> <<>>]
Table(rows) == [kind |-> "table", rows |-> rows]

\* df['timestamp'].min() and .max(); the cells of one table share their d
MinTs(rows) == CHOOSE m \in {rows[i][1].n : i \in 1..Len(rows)} :
                   \A i \in 1..Len(rows) : m <= rows[i][1].n
MaxTs(rows) == CHOOSE m \in {rows[i][1].n : i \in 1..Len(rows)} :
                   \A i \in 1..Len(rows) : m >= rows[i][1].n

----------------------------------------------------------------------------
(* The float64 arithmetic of the timestamp column.  A float64 x with        *)
(* 0 <= x < 2^26 is written exactly, as the integer x * 2^64 in three limbs *)
(* of 30 bits, the most significant limb first.  An operator takes the      *)
(* values of its operands first, as the members of one-element sets.        *)

Limb == 2^30

\* a + b, exactly
LimbsAdd(a, b) ==
    CHOOSE sum \in
        {LET s3 == x[3] + y[3]
             s2 == x[2] + y[2] + (s3 \div Limb)
         IN  <<x[1] + y[1] + (s2 \div Limb), s2 % Limb, s3 % Limb>> :
         x \in {a}, y \in {b}} : TRUE

\* a - b, exactly, for a >= b
LimbsSub(a, b) ==
    CHOOSE difference \in
        {LET d3 == x[3] - y[3]
             d2 == x[2] - y[2] + (d3 \div Limb)
         IN  <<x[1] - y[1] + (d2 \div Limb), d2 % Limb, d3 % Limb>> :
         x \in {a}, y \in {b}} : TRUE

\* a / 2, for a even
LimbsHalf(a) ==
    CHOOSE half \in
        {<<x[1] \div 2,
           (x[1] % 2) * (Limb \div 2) + (x[2] \div 2),
           (x[2] % 2) * (Limb \div 2) + (x[3] \div 2)>> : x \in {a}} : TRUE

\* a < b
LimbsLess(a, b) ==
    \E x \in {a}, y \in {b} :
        \/ x[1] < y[1]
        \/ x[1] = y[1] /\ x[2] < y[2]
        \/ x[1] = y[1] /\ x[2] = y[2] /\ x[3] < y[3]

\* The float64 nearest to exact, ties to the even mantissa: what an
\* operation returns whose exact result is exact, or exact and a little more
\* when sticky.  A float64 has a mantissa of 53 bits.
RoundToFloat(exact, sticky) ==
    LET BitLength(a) == Cardinality({k \in 0..29 : 2^k <= a})
        \* 2^k, for k < 60
        PowerOfTwo(k) == IF k < 30 THEN <<0, 0, 2^k>> ELSE <<0, 2^(k - 30), 0>>
        \* x rounded to a multiple of 2^s, for 0 < s <= 60
        Rounded(x, s) ==
            LET low == IF s <= 30 THEN <<0, 0, x[3] % (2^s)>>
                       ELSE <<0, x[2] % (2^(s - 30)), x[3]>>
                odd == IF s < 30 THEN (x[3] \div (2^s)) % 2 = 1
                       ELSE (x[2] \div (2^(s - 30))) % 2 = 1
                up == \/ LimbsLess(PowerOfTwo(s - 1), low)
                      \/ low = PowerOfTwo(s - 1) /\ (sticky \/ odd)
            IN  IF up THEN LimbsAdd(LimbsSub(x, low), PowerOfTwo(s))
                ELSE LimbsSub(x, low)
    IN  CHOOSE float \in
            {IF bits <= 53 THEN x ELSE Rounded(x, bits - 53) :
             <<x, bits>> \in
                {<<y, IF y[1] > 0 THEN 60 + BitLength(y[1])
                      ELSE IF y[2] > 0 THEN 30 + BitLength(y[2])
                      ELSE BitLength(y[3])>> : y \in {exact}}} : TRUE

\* x + y and x - y of two float64
FloatAdd(x, y) == RoundToFloat(LimbsAdd(x, y), FALSE)
FloatSub(x, y) == RoundToFloat(LimbsSub(x, y), FALSE)

\* float(k) of an integer k
FloatOfInt(k) == <<k * 16, 0, 0>>

\* ms / 1000.0: the quotient by long division, 4 and then four times 15
\* bits behind the binary point, rounded
DivideBy1000(ms) ==
    CHOOSE quotient \in
        {LET r0 == t % 1000
             r1 == (r0 * 16) % 1000
             r2 == (r1 * 32768) % 1000
             r3 == (r2 * 32768) % 1000
             r4 == (r3 * 32768) % 1000
             r5 == (r4 * 32768) % 1000
         IN  RoundToFloat(
                 <<(t \div 1000) * 16 + ((r0 * 16) \div 1000),
                   ((r1 * 32768) \div 1000) * 32768 + ((r2 * 32768) \div 1000),
                   ((r3 * 32768) \div 1000) * 32768 + ((r4 * 32768) \div 1000)>>,
                 r5 # 0) : t \in {ms}} : TRUE

\* the float64 of a timestamp cell
FloatOf(cell) ==
    CHOOSE float \in
        {IF c.d = 1000 THEN DivideBy1000(c.n) ELSE FloatOfInt(c.n) :
         c \in {cell}} : TRUE

\* (df['timestamp'] >= start_time) & (df['timestamp'] <= end_time)
InWindow(t, start_time, end_time) ==
    \E x \in {t} : ~LimbsLess(x, start_time) /\ ~LimbsLess(end_time, x)

\* snippet_df of a non-empty table
Snippet(v, rows) ==
    CHOOSE snippet_df \in
        {LET first_timestamp == FloatOf([n |-> MinTs(df), d |-> df[1][1].d])
             last_timestamp == FloatOf([n |-> MaxTs(df), d |-> df[1][1].d])
             total_duration == FloatSub(last_timestamp, first_timestamp)
         IN  IF LimbsLess(total_duration, FloatOfInt(SNIPPET_DURATION(v))) THEN df
             ELSE LET mid_time == FloatAdd(first_timestamp, LimbsHalf(total_duration))
                      \* SNIPPET_DURATION / 2
                      half_snippet == LimbsHalf(FloatOfInt(SNIPPET_DURATION(v)))
                      start_time == FloatSub(mid_time, half_snippet)
                      end_time == FloatAdd(mid_time, half_snippet)
                  IN  SelectSeq(df,
                          LAMBDA r : InWindow(FloatOf(r[1]), start_time, end_time)) :
         df \in {rows}} : TRUE

----------------------------------------------------------------------------
(* Inputs: the records, reads and folder listings the environment supplies *)

\* t as the four bytes of a little-endian unsigned 32-bit integer
LE32(t) == <<t % 256, (t \div 256) % 256, (t \div 65536) % 256,
             (t \div 16777216) % 256>>

ChannelPattern(seed) == [i \in 1..CHANNEL_BYTES |-> (seed * i) % 256]

MkRecord(seed, t) == ChannelPattern(seed) \o LE32(t)

RawTimestamps == {50, 80, 100, 200}

BinRecords == {MkRecord(37, t) : t \in RawTimestamps}

\* a read at the end of a file that is not a whole number of records long
ShortReads == {PySlice(MkRecord(37, 50), 0, n) : n \in {1, RECORD_SIZE - 1}}

\* data_2.bin and data_10.bin
FileNames == {<<2>>, <<1, 0>>}

Listings ==
    {<<>>} \cup {<<a>> : a \in FileNames}
           \cup {p \in FileNames \X FileNames : p[1] # p[2]}

----------------------------------------------------------------------------
(* A decoder run on its own: process_files and main are not running *)

MainIdle ==
    /\ csv_files = <<>>
    /\ unit_idx = 0
    /\ unit_inputs = <<>>
    /\ files_processed = 0
    /\ expected_failed_created = 0
    /\ unexpected_failed_files = 0
    /\ expected_packets = <<>>
    /\ args_list = <<>>
    /\ pool = <<>>
    /\ results = <<>>
    /\ throughput_data = <<>>
    /\ packet_loss_data = <<>>
    /\ average_time_data = <<>>

\* the variables of a decoder run on its own
decvars == <<listing, bin_files, file_idx, binary_data, channel_data,
             timestamp, base_timestamp_ms, last_timestamp_ms, all_rows,
             row_src, lines_seen, report, stale, output_file>>

----------------------------------------------------------------------------
(* decode_binary_files *)

Rows == IF variant = BINARYDECODER THEN output_file.rows ELSE all_rows

\* Entry of the function up to the for loop: the listing is sorted, the
\* reconciler state is initialised; binarydecoder opens the output file and
\* writes the header first.  Every call has an output path of its own, which
\* holds no file yet.
BinStart ==
    /\ func = "decode_binary_files"
    /\ pc \in {"start", "done"}
    /\ \E l \in Listings :
          /\ listing' = l
          /\ bin_files' = SortFiles(l)
    /\ file_idx' = 0
    /\ base_timestamp_ms' =
          SequenceStartState(base_timestamp_ms, last_timestamp_ms).base_timestamp_ms
    /\ last_timestamp_ms' =
          SequenceStartState(base_timestamp_ms, last_timestamp_ms).last_timestamp_ms
    /\ all_rows' = <<>>
    /\ row_src' = <<>>
    /\ binary_data' = <<>>
    /\ channel_data' = <<>>
    /\ timestamp' = 0
    /\ report' = ""
    /\ output_file' = IF variant = BINARYDECODER THEN HeaderOnly ELSE AbsentFile
    /\ stale' = (stale \/ last_timestamp_ms > 0)
    /\ pc' = "for_files"
    /\ UNCHANGED <<func, variant, lines_seen>>
    /\ UNCHANGED mainvars

\* for bin_file_path in bin_files: open the next file
BinOpenNext ==
    /\ func = "decode_binary_files"
    /\ pc = "for_files"
    /\ file_idx < Len(bin_files)
    /\ file_idx' = file_idx + 1
    /\ pc' = "while_read"
    /\ UNCHANGED <<func, variant, listing, bin_files, binary_data, channel_data,
                   timestamp, base_timestamp_ms, last_timestamp_ms, all_rows,
                   row_src, lines_seen, report, stale, output_file>>
    /\ UNCHANGED mainvars

\* bin_file.read(36) returns a whole record: the body of the while loop
BinReadRecord ==
    /\ func = "decode_binary_files"
    /\ pc = "while_read"
    /\ Len(Rows) < MaxRows
    /\ \E rec \in BinRecords :
          LET ch == UnpackChannels(variant, rec)
              t == UnpackTimestamp(rec)
              r == Reconcile(base_timestamp_ms, last_timestamp_ms, t)
              row == BinRow(variant, rec, base_timestamp_ms, last_timestamp_ms)
          IN  /\ binary_data' = rec
              /\ channel_data' = ch
              /\ timestamp' = t
              /\ IF variant = PND2
                 THEN /\ base_timestamp_ms' = r.base_timestamp_ms
                      /\ last_timestamp_ms' = r.last_timestamp_ms
                 ELSE UNCHANGED <<base_timestamp_ms, last_timestamp_ms>>
              /\ IF variant = BINARYDECODER
                 THEN /\ output_file' = Table(Append(output_file.rows, row))
                      /\ UNCHANGED all_rows
                 ELSE /\ all_rows' = Append(all_rows, row)
                      /\ UNCHANGED output_file
              /\ row_src' = Append(row_src, [file |-> bin_files[file_idx],
                                             bytes |-> rec])
    /\ report' = ""
    /\ UNCHANGED <<func, variant, pc, listing, bin_files, file_idx, lines_seen,
                   stale>>
    /\ UNCHANGED mainvars

\* what the function prints or logs when a read returns 1..35 bytes
ShortReadReport(v) == IF v = BINARYDECODER THEN "incomplete data" ELSE ""

\* bin_file.read(36) returns 1..35 bytes: break
BinReadShortReconciled ==
    /\ func = "decode_binary_files"
    /\ pc = "while_read"
    /\ \E buf \in ShortReads :
          LET t == UnpackTimestamp(buf \o [i \in 1..(RECORD_SIZE - Len(buf)) |-> 0])
              r == Reconcile(base_timestamp_ms, last_timestamp_ms, t)
          IN  /\ binary_data' = buf
              /\ base_timestamp_ms' = r.base_timestamp_ms
              /\ last_timestamp_ms' = r.last_timestamp_ms
    /\ report' = ShortReadReport(variant)
    /\ pc' = "for_files"
    /\ UNCHANGED <<func, variant, listing, bin_files, file_idx, channel_data,
                   timestamp, all_rows, row_src, lines_seen, stale, output_file>>
    /\ UNCHANGED mainvars
BinReadShort ==
    /\ func = "decode_binary_files"
    /\ pc = "while_read"
    /\ \E buf \in ShortReads : binary_data' = buf
    /\ report' = ShortReadReport(variant)
    /\ pc' = "for_files"
    /\ UNCHANGED <<func, variant, listing, bin_files, file_idx, channel_data,
                   timestamp, base_timestamp_ms, last_timestamp_ms, all_rows,
                   row_src, lines_seen, stale, output_file>>
    /\ UNCHANGED mainvars

\* bin_file.read(36) returns b'': break
BinReadEof ==
    /\ func = "decode_binary_files"
    /\ pc = "while_read"
    /\ binary_data' = <<>>
    /\ report' = ""
    /\ pc' = "for_files"
    /\ UNCHANGED <<func, variant, listing, bin_files, file_idx, channel_data,
                   timestamp, base_timestamp_ms, last_timestamp_ms, all_rows,
                   row_src, lines_seen, stale, output_file>>
    /\ UNCHANGED mainvars

\* The output of decode_binary_files once the for loop is over.
BinOutputNoEmptyTest(v, rows, out) ==
    IF v = BINARYDECODER THEN out
    ELSE IF rows = <<>> THEN HeaderOnly
    ELSE Table(Snippet(v, rows))
BinOutput(v, rows, out) ==
    IF v = BINARYDECODER THEN out
    ELSE IF rows = <<>> THEN FailedCsv
    ELSE CHOOSE file \in
             {IF v = PND THEN Table(snippet_df)
              ELSE IF snippet_df = <<>> THEN FailedCsv
              ELSE IF MaxTs(snippet_df) - MinTs(snippet_df) <= 0 THEN FailedCsv
              ELSE Table(snippet_df) :
              snippet_df \in {Snippet(v, rows)}} : TRUE

\* The for loop is over: the rest of the function.
BinFinish ==
    /\ func = "decode_binary_files"
    /\ pc = "for_files"
    /\ file_idx = Len(bin_files)
    /\ output_file' = BinOutput(variant, all_rows, output_file)
    /\ pc' = "done"
    /\ UNCHANGED <<func, variant, listing, bin_files, file_idx, binary_data,
                   channel_data, timestamp, base_timestamp_ms, last_timestamp_ms,
                   all_rows, row_src, lines_seen, report, stale>>
    /\ UNCHANGED mainvars

BinVariants == {BINARYDECODER, PND, PND2}

InitBin ==
    /\ func = "decode_binary_files"
    /\ variant \in BinVariants
    /\ pc = "start"
    /\ listing = <<>>
    /\ bin_files = <<>>
    /\ file_idx = 0
    /\ binary_data = <<>>
    /\ channel_data = <<>>
    /\ timestamp = 0
    /\ base_timestamp_ms = 0
    /\ last_timestamp_ms = 0
    /\ all_rows = <<>>
    /\ row_src = <<>>
    /\ lines_seen = <<>>
    /\ report = ""
    /\ stale = FALSE
    /\ output_file = AbsentFile
    /\ source = <<>>
    /\ PlotIdle
    /\ MainIdle

NextBin ==
    \/ BinStart
    \/ BinOpenNext
    \/ BinReadRecord
    \/ BinReadShort
    \/ BinReadEof
    \/ BinFinish

SpecBin == InitBin /\ [][NextBin]_vars

----------------------------------------------------------------------------
(* decode_ble_log: the log lines *)

\* A line is [stamp, marker, data]: whether it starts with the ISO-8601
\* timestamp, whether "handle: 0x12, value (0x): " follows, and the
\* characters after the marker up to the end of the line.  The timestamps are
\* taken to be valid dates.
Matches(line) == line.stamp /\ line.marker

HexChars == <<"0", "1", "2", "3", "4", "5", "6", "7", "8", "9",
              "A", "B", "C", "D", "E", "F">>
LowerHexChars == <<"0", "1", "2", "3", "4", "5", "6", "7", "8", "9",
                   "a", "b", "c", "d", "e", "f">>

IsHexChar(c) == \E i \in 1..16 : HexChars[i] = c \/ LowerHexChars[i] = c
HexVal(c) == (CHOOSE i \in 1..16 : HexChars[i] = c \/ LowerHexChars[i] = c) - 1

\* data.replace('-', '')
RemoveHyphens(data) == SelectSeq(data, LAMBDA c : c # "-")

\* bytes.fromhex(s): two hex digits a byte, white space between bytes is
\* skipped, anything else raises ValueError (ok = FALSE)
FromHex(s) ==
    LET at == SelectSeq([i \in 1..Len(s) |-> i], LAMBDA i : s[i] # " ")
        n == Len(at) \div 2
    IN  IF /\ Len(at) = 2 * n
           /\ \A k \in 1..Len(at) : IsHexChar(s[at[k]])
           /\ \A k \in 1..n : at[2 * k] = at[2 * k - 1] + 1
        THEN [ok |-> TRUE,
              bytes |-> [k \in 1..n |->
                            16 * HexVal(s[at[2 * k - 1]]) + HexVal(s[at[2 * k]])]]
        ELSE [ok |-> FALSE, bytes |-> <<>>]

\* the length test before the unpack: True means the line is skipped
WrongLengthNever(v, data_bytes) == FALSE
WrongLength(v, data_bytes) ==
    IF v = PND THEN Len(data_bytes) < RECORD_SIZE
    ELSE Len(data_bytes) # RECORD_SIZE

\* What the body of the for loop does with one line.
LineOutcome(v, line) ==
    IF ~Matches(line) THEN "no match"
    ELSE LET h == FromHex(RemoveHyphens(line.data))
         IN  IF ~h.ok THEN "raise"
             ELSE IF WrongLength(v, h.bytes) THEN "skip"
             ELSE IF UnpackRaises(h.bytes) THEN "raise"
             ELSE "row"

(* Inputs *)

RECURSIVE HyphenHex(_)
\* the bytes as the logger prints them: 25-4A-6F-...
HyphenHex(bytes) ==
    IF bytes = <<>> THEN <<>>
    ELSE <<HexChars[(bytes[1] \div 16) + 1], HexChars[(bytes[1] % 16) + 1]>>
             \o (IF Len(bytes) = 1 THEN <<>> ELSE <<"-">> \o HyphenHex(Tail(bytes)))

DataLine(data) == [stamp |-> TRUE, marker |-> TRUE, data |-> data]

BleTimestamps == {50, 100, 200}

ValidLines == {DataLine(HyphenHex(MkRecord(37, t))) : t \in BleTimestamps}
\* 30 bytes
ShortLine == DataLine(HyphenHex(PySlice(MkRecord(37, 50), 0, 30)))
\* 37 bytes
LongLine == DataLine(HyphenHex(MkRecord(37, 50) \o <<0>>))
\* an odd number of hex digits
OddLine == DataLine(PySlice(HyphenHex(MkRecord(37, 50)), 0, 106))
\* a character that is no hex digit
NonHexLine == DataLine(<<"G", "1">> \o PySlice(HyphenHex(MkRecord(37, 50)), 2, 107))
\* a line of the log that is not a notification
OtherLine == [stamp |-> TRUE, marker |-> FALSE, data |-> <<>>]

BleLines == ValidLines \cup {ShortLine, LongLine, OddLine, NonHexLine, OtherLine}

----------------------------------------------------------------------------
(* decode_ble_log *)

BleVariants == {PND, PND2, TEST_BLE}

\* Entry of the function up to the for loop: the input file is open;
\* process_neural_data2 and the test script open the output file and write
\* the header.
BleStart ==
    /\ func = "decode_ble_log"
    /\ pc = "start"
    /\ all_rows' = <<>>
    /\ output_file' = IF variant = PND THEN output_file ELSE HeaderOnly
    /\ pc' = "for_lines"
    /\ UNCHANGED <<func, variant, listing, bin_files, file_idx, binary_data,
                   channel_data, timestamp, base_timestamp_ms, last_timestamp_ms,
                   row_src, lines_seen, report, stale>>
    /\ UNCHANGED mainvars

\* open(input_file) raises: there is no such file
BleStartMissing ==
    /\ func = "decode_ble_log"
    /\ pc = "start"
    /\ all_rows' = <<>>
    /\ report' = "error"
    /\ IF variant = TEST_BLE
       THEN pc' = "raised" /\ UNCHANGED output_file
       ELSE pc' = "done" /\ output_file' = FailedCsv
    /\ UNCHANGED <<func, variant, listing, bin_files, file_idx, binary_data,
                   channel_data, timestamp, base_timestamp_ms, last_timestamp_ms,
                   row_src, lines_seen, stale>>
    /\ UNCHANGED mainvars

\* a line the pattern does not match
BleLineNoMatch ==
    /\ func = "decode_ble_log"
    /\ pc = "for_lines"
    /\ Len(lines_seen) < MaxLines
    /\ \E line \in BleLines :
          /\ LineOutcome(variant, line) = "no match"
          /\ lines_seen' = Append(lines_seen, line)
    /\ report' = ""
    /\ UNCHANGED <<func, variant, pc, listing, bin_files, file_idx, binary_data,
                   channel_data, timestamp, base_timestamp_ms, last_timestamp_ms,
                   all_rows, row_src, stale, output_file>>
    /\ UNCHANGED mainvars

\* a matching line of the wrong length: warning, continue
BleLineSkipped ==
    /\ func = "decode_ble_log"
    /\ pc = "for_lines"
    /\ Len(lines_seen) < MaxLines
    /\ \E line \in BleLines :
          /\ LineOutcome(variant, line) = "skip"
          /\ lines_seen' = Append(lines_seen, line)
          /\ binary_data' = FromHex(RemoveHyphens(line.data)).bytes
    /\ report' = "invalid data length"
    /\ UNCHANGED <<func, variant, pc, listing, bin_files, file_idx,
                   channel_data, timestamp, base_timestamp_ms, last_timestamp_ms,
                   all_rows, row_src, stale, output_file>>
    /\ UNCHANGED mainvars

\* a matching line that decodes: the row is appended
BleLineRow ==
    /\ func = "decode_ble_log"
    /\ pc = "for_lines"
    /\ Len(lines_seen) < MaxLines
    /\ \E line \in BleLines :
          /\ LineOutcome(variant, line) = "row"
          /\ LET data_bytes == FromHex(RemoveHyphens(line.data)).bytes
                 ch == UnpackChannels(variant, data_bytes)
                 ble_timestamp == UnpackTimestamp(data_bytes)
             IN  /\ binary_data' = data_bytes
                 /\ channel_data' = ch
                 /\ timestamp' = ble_timestamp
                 /\ all_rows' = Append(all_rows, BleRow(variant, data_bytes))
                 /\ row_src' = Append(row_src, [file |-> <<>>, bytes |-> data_bytes])
          /\ lines_seen' = Append(lines_seen, line)
    /\ report' = ""
    /\ UNCHANGED <<func, variant, pc, listing, bin_files, file_idx,
                   base_timestamp_ms, last_timestamp_ms, stale, output_file>>
    /\ UNCHANGED mainvars

\* except Exception: process_neural_data and process_neural_data2 write the
\* failed CSV and return; the test script logs and raises again, and the
\* output file keeps its header.
BleLineRaises ==
    /\ func = "decode_ble_log"
    /\ pc = "for_lines"
    /\ Len(lines_seen) < MaxLines
    /\ \E line \in BleLines :
          /\ LineOutcome(variant, line) = "raise"
          /\ lines_seen' = Append(lines_seen, line)
    /\ report' = "error"
    /\ IF variant = TEST_BLE
       THEN pc' = "raised" /\ UNCHANGED output_file
       ELSE pc' = "done" /\ output_file' = FailedCsv
    /\ UNCHANGED <<func, variant, listing, bin_files, file_idx, binary_data,
                   channel_data, timestamp, base_timestamp_ms, last_timestamp_ms,
                   all_rows, row_src, stale>>
    /\ UNCHANGED mainvars

\* The output of decode_ble_log once the for loop is over.
BleOutputNoEmptyTest(v, rows) ==
    IF rows = <<>> THEN HeaderOnly ELSE Table(Snippet(v, rows))
BleOutput(v, rows) ==
    IF v = TEST_BLE THEN Table(rows)        \* csv_writer.writerows(all_rows)
    ELSE IF rows = <<>> THEN FailedCsv
    ELSE CHOOSE file \in
             {IF v = PND THEN Table(snippet_df)
              ELSE IF snippet_df = <<>> THEN FailedCsv
              ELSE Table(snippet_df) :
              snippet_df \in {Snippet(v, rows)}} : TRUE

\* The input is exhausted: the rest of the function.
BleFinish ==
    /\ func = "decode_ble_log"
    /\ pc = "for_lines"
    /\ output_file' = BleOutput(variant, all_rows)
    /\ pc' = "done"
    /\ UNCHANGED <<func, variant, listing, bin_files, file_idx, binary_data,
                   channel_data, timestamp, base_timestamp_ms, last_timestamp_ms,
                   all_rows, row_src, lines_seen, report, stale>>
    /\ UNCHANGED mainvars

InitBle ==
    /\ func = "decode_ble_log"
    /\ variant \in BleVariants
    /\ pc = "start"
    /\ listing = <<>>
    /\ bin_files = <<>>
    /\ file_idx = 0
    /\ binary_data = <<>>
    /\ channel_data = <<>>
    /\ timestamp = 0
    /\ base_timestamp_ms = 0
    /\ last_timestamp_ms = 0
    /\ all_rows = <<>>
    /\ row_src = <<>>
    /\ lines_seen = <<>>
    /\ report = ""
    /\ stale = FALSE
    /\ output_file = AbsentFile
    /\ source = <<>>
    /\ PlotIdle
    /\ MainIdle

NextBle ==
    \/ BleStart
    \/ BleStartMissing
    \/ BleLineNoMatch
    \/ BleLineSkipped
    \/ BleLineRow
    \/ BleLineRaises
    \/ BleFinish

SpecBle == InitBle /\ [][NextBle]_vars

----------------------------------------------------------------------------
(* The two decoders of the processing pipeline (process_neural_data and     *)
(* process_neural_data2), each run on one source unit                      *)

PipelineVariants == {PND, PND2}

InitDecoders ==
    /\ InitBin \/ InitBle
    /\ variant \in PipelineVariants

NextDecoders ==
    \/ NextBin
    \/ NextBle

SpecDecoders == InitDecoders /\ [][NextDecoders]_vars

----------------------------------------------------------------------------
(* The decoding of one record, by every decoder *)

EdgeBytes == {0, 127, 128, 255}

\* the pattern of seed with the two bytes of channel k replaced by lo, hi
RecordWith(seed, k, lo, hi, t) ==
    [i \in 1..RECORD_SIZE |->
        IF i = 2 * k - 1 THEN lo
        ELSE IF i = 2 * k THEN hi
        ELSE MkRecord(seed, t)[i]]

UnpackTimestamps == {0, 100, 16909060, 2147483647}

UnpackRecords ==
    {RecordWith(seed, k, lo, hi, t) :
        seed \in {0, 37}, k \in 1..MAX_CHANNELS, lo \in EdgeBytes,
        hi \in EdgeBytes, t \in UnpackTimestamps}

Decoders ==
    ({"decode_binary_files"} \X BinVariants) \cup ({"decode_ble_log"} \X BleVariants)

InitUnpack ==
    /\ \E dec \in Decoders : func = dec[1] /\ variant = dec[2]
    /\ binary_data \in UnpackRecords
    /\ pc = "unpack"
    /\ listing = <<>>
    /\ bin_files = <<>>
    /\ file_idx = 0
    /\ channel_data = <<>>
    /\ timestamp = 0
    /\ base_timestamp_ms = 0
    /\ last_timestamp_ms = 0
    /\ all_rows = <<>>
    /\ row_src = <<>>
    /\ lines_seen = <<>>
    /\ report = ""
    /\ stale = FALSE
    /\ output_file = AbsentFile
    /\ source = <<>>
    /\ PlotIdle
    /\ MainIdle

\* The record is unpacked and its row built, as the first record of a source.
UnpackRecord ==
    /\ pc = "unpack"
    /\ channel_data' = UnpackChannels(variant, binary_data)
    /\ timestamp' = UnpackTimestamp(binary_data)
    /\ all_rows' = <<IF func = "decode_binary_files"
                     THEN BinRow(variant, binary_data, 0, 0)
                     ELSE BleRow(variant, binary_data)>>
    /\ row_src' = <<[file |-> <<>>, bytes |-> binary_data]>>
    /\ pc' = "unpacked"
    /\ UNCHANGED <<func, variant, listing, bin_files, file_idx, binary_data,
                   base_timestamp_ms, last_timestamp_ms, lines_seen, report,
                   stale, output_file>>
    /\ UNCHANGED mainvars

NextUnpack == UnpackRecord

SpecUnpack == InitUnpack /\ [][NextUnpack]_vars

----------------------------------------------------------------------------
(* process_files: the file mapping and the names of the output files.  A    *)
(* text is the sequence of its characters.                                 *)

\* the keys of file_mapping, in the order of the dict
SamplingFrequencies == <<100, 250, 500, 750, 1000, 1200, 1500, 2000, 2500>>

\* the keys of file_mapping[freq], in the order of the dict: 'BLE+SD (Intan) SD',
\* 'BLE+SD (Intan) BLE', 'BLE (Intan)', 'SD (Intan)', 'BLE+SD (Fakedata) SD',
\* 'BLE+SD (Fakedata) BLE'
Configs ==
    <<
      <<"B", "L", "E", "+", "S", "D", " ", "(", "I", "n", "t",
        "a", "n", ")", " ", "S", "D">>,
      <<"B", "L", "E", "+", "S", "D", " ", "(", "I", "n", "t",
        "a", "n", ")", " ", "B", "L", "E">>,
      <<"B", "L", "E", " ", "(", "I", "n", "t", "a", "n", ")">>,
      <<"S", "D", " ", "(", "I", "n", "t", "a", "n", ")">>,
      <<"B", "L", "E", "+", "S", "D", " ", "(", "F", "a", "k",
        "e", "d", "a", "t", "a", ")", " ", "S", "D">>,
      <<"B", "L", "E", "+", "S", "D", " ", "(", "F", "a", "k",
        "e", "d", "a", "t", "a", ")", " ", "B", "L", "E">>
    >>

\* the four Intan configurations at 1500, 2000 and 2500 Hz
failed_cases ==
    {1500, 2000, 2500} \X {Configs[i] : i \in 1..4}

\* for freq, files in file_mapping.items(): for config, filename in
\* files.items(): the units <<freq, config>> in the order of the two loops
UnitsOf(freqs) ==
    [i \in 1..(Len(freqs) * Len(Configs)) |->
        <<freqs[((i - 1) \div Len(Configs)) + 1],
          Configs[((i - 1) % Len(Configs)) + 1]>>]

AllUnits == UnitsOf(SamplingFrequencies)

\* The frequencies whose units the model walks: those of the failed cases,
\* each with four failed cases and two other units.  Every frequency has the
\* same six configurations and an input path of its own.
WalkedFrequencies == <<1500, 2000, 2500>>

Units == UnitsOf(WalkedFrequencies)

\* str(n) of a natural number
RECURSIVE Str(_)
Str(n) ==
    IF n < 10 THEN <<HexChars[n + 1]>>
    ELSE Str(n \div 10) \o <<HexChars[(n % 10) + 1]>>

\* s.replace(old, new), old being one character: each half of s on its own
RECURSIVE Replace(_, _, _)
Replace(s, old, new) ==
    IF s = <<>> THEN <<>>
    ELSE IF Len(s) = 1 THEN (IF s[1] = old THEN new ELSE s)
    ELSE Replace(SubSeq(s, 1, Len(s) \div 2), old, new)
             \o Replace(SubSeq(s, (Len(s) \div 2) + 1, Len(s)), old, new)

\* config.split('(')[0]
RECURSIVE UpToParenthesis(_)
UpToParenthesis(s) ==
    IF s = <<>> \/ s[1] = "(" THEN <<>> ELSE <<s[1]>> \o UpToParenthesis(Tail(s))

\* config.replace(' ', '_').replace('(', '').replace(')', '').replace('+', 'plus')
SanitizeUpToParenthesis(config) ==
    Replace(Replace(UpToParenthesis(config), " ", <<"_">>), "+", <<"p", "l", "u", "s">>)
Sanitize(config) ==
    Replace(Replace(Replace(Replace(config, " ", <<"_">>), "(", <<>>), ")", <<>>),
            "+", <<"p", "l", "u", "s">>)

\* f"{freq}_{sanitized_config}.csv", the name of the file in output_folder
OutputName(freq, config) ==
    Str(freq) \o <<"_">> \o Sanitize(config) \o <<".", "c", "s", "v">>

\* output_path of every unit of the mapping, computed once
output_path ==
    [u \in {AllUnits[i] : i \in 1..Len(AllUnits)} |-> OutputName(u[1], u[2])]

OutputNames == {output_path[Units[i]] : i \in 1..Len(Units)}

----------------------------------------------------------------------------
(* The decoders as process_files calls them: from the input to the file    *)
(* written, with the loops of the functions run to their end               *)

\* The while loop over one file; reads is what bin_file.read(36) returns,
\* call after call, up to the end of the file.
RECURSIVE ReadLoop(_, _, _)
ReadLoopOnce(v, st, reads) ==
    IF reads = <<>> \/ Len(reads[1]) # RECORD_SIZE THEN st
    ELSE LET r == Reconcile(st.base_timestamp_ms, st.last_timestamp_ms,
                            UnpackTimestamp(reads[1]))
         IN  [all_rows |-> Append(st.all_rows,
                               BinRow(v, reads[1], st.base_timestamp_ms,
                                      st.last_timestamp_ms)),
              base_timestamp_ms |->
                  IF v = PND2 THEN r.base_timestamp_ms ELSE st.base_timestamp_ms,
              last_timestamp_ms |->
                  IF v = PND2 THEN r.last_timestamp_ms ELSE st.last_timestamp_ms]
ReadLoop(v, st, reads) ==
    IF reads = <<>> \/ Len(reads[1]) # RECORD_SIZE THEN st
    ELSE LET r == Reconcile(st.base_timestamp_ms, st.last_timestamp_ms,
                            UnpackTimestamp(reads[1]))
         IN  ReadLoop(v,
                 [all_rows |-> Append(st.all_rows,
                                  BinRow(v, reads[1], st.base_timestamp_ms,
                                         st.last_timestamp_ms)),
                  base_timestamp_ms |->
                      IF v = PND2 THEN r.base_timestamp_ms ELSE st.base_timestamp_ms,
                  last_timestamp_ms |->
                      IF v = PND2 THEN r.last_timestamp_ms ELSE st.last_timestamp_ms],
                 Tail(reads))

\* the reads of the file of a folder
ContentOf(input, name) ==
    input.content[CHOOSE i \in 1..Len(input.listing) : input.listing[i] = name]

\* for bin_file_path in bin_files
RECURSIVE FileLoop(_, _, _, _)
FileLoop(v, st, files, input) ==
    IF files = <<>> THEN st
    ELSE FileLoop(v, ReadLoop(v, st, ContentOf(input, files[1])), Tail(files), input)

\* all_rows of decode_binary_files at the end of the for loop
DecodedBinRows(v, input) ==
    FileLoop(v, [all_rows |-> <<>>,
                 base_timestamp_ms |-> SequenceStartState(0, 0).base_timestamp_ms,
                 last_timestamp_ms |-> SequenceStartState(0, 0).last_timestamp_ms],
             SortFiles(input.listing), input).all_rows

\* decode_binary_files(input_path, output_path): the file written, and
\* whether an exception leaves the function (the handler lets none out)
DecodeBinaryFiles(v, input) ==
    [raised |-> FALSE,
     file |-> BinOutput(v, DecodedBinRows(v, input), AbsentFile)]

\* for line in infile
RECURSIVE LineLoop(_, _, _)
LineLoop(v, rows, lines) ==
    IF lines = <<>> THEN [raised |-> FALSE, all_rows |-> rows]
    ELSE LET outcome == LineOutcome(v, lines[1])
         IN  IF outcome = "raise" THEN [raised |-> TRUE, all_rows |-> rows]
             ELSE IF outcome = "row"
             THEN LineLoop(v,
                      Append(rows, BleRow(v, FromHex(RemoveHyphens(lines[1].data)).bytes)),
                      Tail(lines))
             ELSE LineLoop(v, rows, Tail(lines))

\* decode_ble_log(input_path, output_path): the file written, and whether an
\* exception leaves the function (the handler lets none out)
DecodeBleLog(v, input) ==
    LET loop == LineLoop(v, <<>>, input.lines)
    IN  [raised |-> FALSE,
         file |-> IF loop.raised THEN FailedCsv ELSE BleOutput(v, loop.all_rows)]

----------------------------------------------------------------------------
(* process_files: what a unit finds at its input path *)

MaxExisting == 2

\* An input: the type of the path, the listing of the folder with the reads
\* of each file, or the lines of the log.  The state keeps its name.
Input(name, kind, names, content, lines) ==
    [name |-> name, kind |-> kind, listing |-> names, content |-> content,
     lines |-> lines]

Inputs ==
    [\* os.path.exists(input_path) is False
     Missing |-> Input("Missing", "missing", <<>>, <<>>, <<>>),
     \* the path exists and is neither a folder nor a regular file
     Other |-> Input("Other", "other", <<>>, <<>>, <<>>),
     \* a folder without data_*.bin files
     EmptyFolder |-> Input("EmptyFolder", "dir", <<>>, <<>>, <<>>),
     \* data_2.bin of 0 bytes
     ZeroByteFolder |->
        Input("ZeroByteFolder", "dir", << <<2>> >>, << <<>> >>, <<>>),
     \* data_2.bin of 36 bytes
     OneRecordFolder |->
        Input("OneRecordFolder", "dir", << <<2>> >>,
              << <<MkRecord(37, 50)>> >>, <<>>),
     \* data_10.bin and data_2.bin of 36 bytes each, 50 ms apart
     TwoRecordFolder |->
        Input("TwoRecordFolder", "dir", << <<1, 0>>, <<2>> >>,
              << <<MkRecord(37, 100)>>, <<MkRecord(37, 50)>> >>, <<>>),
     \* data_2.bin of two records 30 s apart and one more byte
     WideFolder |->
        Input("WideFolder", "dir", << <<2>> >>,
              << <<MkRecord(37, 50), MkRecord(37, 30050), <<0>>>> >>, <<>>),
     \* a log without a notification line
     EmptyLog |-> Input("EmptyLog", "file", <<>>, <<>>, <<OtherLine>>),
     \* a log of two valid lines around a short one
     TableLog |->
        Input("TableLog", "file", <<>>, <<>>,
              <<DataLine(HyphenHex(MkRecord(37, 50))), ShortLine,
                DataLine(HyphenHex(MkRecord(37, 100)))>>),
     \* a log whose second notification is not a hex string
     RaisingLog |->
        Input("RaisingLog", "file", <<>>, <<>>,
              <<DataLine(HyphenHex(MkRecord(37, 50))), NonHexLine>>)]

\* the inputs of a path that exists
ExistingInputs ==
    {Inputs[name] : name \in DOMAIN Inputs \ {"Missing"}}

\* the number of input paths found so far
Existing(inputs) ==
    Cardinality({i \in 1..Len(inputs) :
                    inputs[i].input # "Missing"})

\* what may be at the input path of the unit; at the path of one of
\* failed_cases, nothing or a source that decodes to a table
InputsFor(unit, inputs) ==
    {Inputs.Missing}
        \cup (IF Existing(inputs) >= MaxExisting THEN {}
              ELSE IF unit \in failed_cases
                   THEN {Inputs.TwoRecordFolder, Inputs.TableLog}
                   ELSE ExistingInputs)

\* The result of each decoder on each input, computed once.
DecoderResults ==
    [v \in PipelineVariants, name \in {x.name : x \in ExistingInputs} |->
        IF Inputs[name].kind = "dir" THEN DecodeBinaryFiles(v, Inputs[name])
        ELSE IF Inputs[name].kind = "file" THEN DecodeBleLog(v, Inputs[name])
        ELSE [raised |-> FALSE, file |-> AbsentFile]]

----------------------------------------------------------------------------
(* process_files *)

\* The body of the two for loops for one unit: the file written at
\* output_path, the counter that is incremented, and whether an exception
\* leaves process_files.
UnitOutcomeMissingRaises(v, freq, config, input) ==
    IF <<freq, config>> \in failed_cases
    THEN [file |-> FailedCsv, counter |-> "expected_failed_created",
          propagates |-> FALSE]
    ELSE IF input.kind \in {"dir", "file"}
    THEN [file |-> DecoderResults[v, input.name].file,
          counter |-> "files_processed", propagates |-> FALSE]
    ELSE [file |-> AbsentFile, counter |-> "", propagates |-> TRUE]
UnitOutcomeExistsFirst(v, freq, config, input) ==
    IF input.kind \in {"dir", "file"}
    THEN [file |-> DecoderResults[v, input.name].file,
          counter |-> "files_processed", propagates |-> FALSE]
    ELSE [file |-> FailedCsv,
          counter |-> IF <<freq, config>> \in failed_cases
                      THEN "expected_failed_created"
                      ELSE "unexpected_failed_files",
          propagates |-> FALSE]
UnitOutcome(v, freq, config, input) ==
    LET failed(counter) ==
            [file |-> FailedCsv, counter |-> counter, propagates |-> FALSE]
    IN  IF <<freq, config>> \in failed_cases
        THEN failed("expected_failed_created")
        ELSE IF input.kind = "missing"
        THEN failed("unexpected_failed_files")
        ELSE IF input.kind \in {"dir", "file"}
        \* decode_binary_files of a folder, decode_ble_log of a file
        THEN CHOOSE outcome \in
                 {IF d.raised THEN failed("unexpected_failed_files")
                  ELSE [file |-> d.file, counter |-> "files_processed",
                        propagates |-> FALSE] :
                  d \in {DecoderResults[v, input.name]}} : TRUE
        ELSE failed("unexpected_failed_files")

\* sum(len(files) for files in file_mapping.values()), of the mapping walked
total_expected_files == Len(Units)
\* len(failed_cases)
total_expected_failed == Cardinality(failed_cases)

BumpEveryCounter(counter, name) == 1
Bump(counter, name) == IF counter = name THEN 1 ELSE 0

\* One pass of the body of the loops of process_files.
ProcessUnit ==
    /\ func = "process_files"
    /\ pc = "for_units"
    /\ unit_idx < Len(Units)
    /\ LET unit == Units[unit_idx + 1]
       IN  \E input \in InputsFor(unit, unit_inputs) :
              LET o == UnitOutcome(variant, unit[1], unit[2], input)
              IN  /\ unit_inputs' =
                        Append(unit_inputs, [unit |-> unit, input |-> input.name])
                  /\ IF o.propagates
                     THEN /\ pc' = "raised"
                          /\ UNCHANGED <<csv_files, files_processed,
                                         expected_failed_created,
                                         unexpected_failed_files>>
                     ELSE /\ pc' = pc
                          /\ csv_files' =
                                [csv_files EXCEPT ![output_path[unit]] = o.file]
                          /\ files_processed' =
                                files_processed + Bump(o.counter, "files_processed")
                          /\ expected_failed_created' =
                                expected_failed_created
                                    + Bump(o.counter, "expected_failed_created")
                          /\ unexpected_failed_files' =
                                unexpected_failed_files
                                    + Bump(o.counter, "unexpected_failed_files")
    /\ unit_idx' = unit_idx + 1
    /\ UNCHANGED <<func, variant, source, log_file, all_events, timestamps,
                   expected_packets, args_list, pool, results,
                   throughput_data, packet_loss_data, average_time_data>>
    /\ UNCHANGED decvars

\* The loops are over: the summary is logged and returned.
ProcessFilesReturn ==
    /\ func = "process_files"
    /\ pc = "for_units"
    /\ unit_idx = Len(Units)
    /\ pc' = "returned"
    /\ UNCHANGED <<func, variant>>
    /\ UNCHANGED mainvars
    /\ UNCHANGED decvars

\* the decoder variables while no decoder runs on its own
DecIdle ==
    /\ listing = <<>>
    /\ bin_files = <<>>
    /\ file_idx = 0
    /\ binary_data = <<>>
    /\ channel_data = <<>>
    /\ timestamp = 0
    /\ base_timestamp_ms = 0
    /\ last_timestamp_ms = 0
    /\ all_rows = <<>>
    /\ row_src = <<>>
    /\ lines_seen = <<>>
    /\ report = ""
    /\ stale = FALSE
    /\ output_file = AbsentFile

\* process_files of process_neural_data2 at the head of its loops, the
\* output folder holding none of the files yet
InitFiles ==
    /\ func = "process_files"
    /\ variant = PND2
    /\ pc = "for_units"
    /\ DecIdle
    /\ source = <<>>
    /\ PlotIdle
    /\ csv_files = [name \in OutputNames |-> AbsentFile]
    /\ unit_idx = 0
    /\ unit_inputs = <<>>
    /\ files_processed = 0
    /\ expected_failed_created = 0
    /\ unexpected_failed_files = 0
    /\ expected_packets = <<>>
    /\ args_list = <<>>
    /\ pool = <<>>
    /\ results = <<>>
    /\ throughput_data = <<>>
    /\ packet_loss_data = <<>>
    /\ average_time_data = <<>>

NextFiles ==
    \/ ProcessUnit
    \/ ProcessFilesReturn

SpecFiles == InitFiles /\ [][NextFiles]_vars

----------------------------------------------------------------------------
(* main: the analysis of the files process_files has left in output_folder  *)

None == <<>>

\* pd.read_csv(csv_file): whether the file is found, the columns and the
\* number of rows of the frame, and its timestamp column.  The failure marker
\* reads as the column status with the one row failed.
ReadCsv(file) ==
    CASE file.kind = "absent" ->
            [found |-> FALSE, columns |-> {}, len |-> 0, timestamp |-> <<>>]
      [] file.kind = "failed" ->
            [found |-> TRUE, columns |-> {"status"}, len |-> 1, timestamp |-> <<>>]
      [] OTHER ->
            [found |-> TRUE, columns |-> {"timestamp", "ch1..ch16"},
             len |-> Len(file.rows),
             timestamp |-> [i \in 1..Len(file.rows) |-> file.rows[i][1]]]

\* calculate_actual_packets(csv_file): None, or <<total_packets>>
calculate_actual_packets(file) ==
    LET df == ReadCsv(file)
    IN  IF ~df.found THEN None                          \* FileNotFoundError
        ELSE IF "timestamp" \notin df.columns THEN None
        ELSE <<df.len>>

\* calculate_throughput(csv_file) of process_neural_data.py: None, or
\* <<throughput>>; the duration of a frame without rows is not a number
calculate_throughput(file) ==
    LET df == ReadCsv(file)
    IN  IF ~df.found THEN None
        ELSE IF "timestamp" \notin df.columns THEN None
        ELSE IF df.len = 0 THEN <<0>>
        ELSE LET duration == MaxTs(file.rows) - MinTs(file.rows)
             IN  IF duration > 0
                 THEN <<[n |-> df.len * df.timestamp[1].d, d |-> duration]>>
                 ELSE <<0>>

\* calculate_packet_loss(csv_file, expected_samples)
calculate_packet_lossNoColumnTest(file, expected_samples) ==
    LET df == ReadCsv(file)
    IN  IF ~df.found THEN expected_samples
        ELSE IF expected_samples - df.len >= 0 THEN expected_samples - df.len
        ELSE 0
calculate_packet_loss(file, expected_samples) ==
    LET df == ReadCsv(file)
    IN  IF ~df.found THEN expected_samples              \* FileNotFoundError
        ELSE IF "timestamp" \notin df.columns THEN expected_samples
        ELSE IF expected_samples - df.len >= 0 THEN expected_samples - df.len
        ELSE 0

\* calculate_average_time(csv_file): None, or <<average_time>>, the mean of
\* the differences of consecutive timestamps
calculate_average_time(file) ==
    LET df == ReadCsv(file)
    IN  IF ~df.found THEN None
        ELSE IF "timestamp" \notin df.columns \/ df.len < 2 THEN None
        ELSE <<[n |-> df.timestamp[df.len].n - df.timestamp[1].n,
                d |-> df.timestamp[1].d * (df.len - 1)]>>

\* sampling_frequencies of main, cut down to the frequency of the failed
\* cases that process_files has walked
sampling_frequencies == <<1500>>

\* configs of main, in the order of the list
configs ==
    <<Configs[1], Configs[2], Configs[5], Configs[6], Configs[3], Configs[4]>>

\* expected_packets of main.  process_neural_data2: SNIPPET_DURATION * sf.
\* process_neural_data: int(sf * duration), duration the largest span of the
\* timestamp column of the files of the frequency, and 0 without a span.
ExpectedPackets(v, files) ==
    [sf \in {sampling_frequencies[i] : i \in 1..Len(sampling_frequencies)} |->
        IF v = PND2 THEN SNIPPET_DURATION(v) * sf
        ELSE LET spans == {[n |-> MaxTs(files[output_path[<<sf, configs[c]>>]].rows)
                                    - MinTs(files[output_path[<<sf, configs[c]>>]].rows),
                            d |-> files[output_path[<<sf, configs[c]>>]].rows[1][1].d] :
                              c \in {k \in 1..Len(configs) :
                                       files[output_path[<<sf, configs[k]>>]].rows # <<>>}}
                 positive == {x \in spans : x.n > 0}
             IN  IF positive = {} THEN 0
                 ELSE LET duration == CHOOSE x \in positive :
                              \A y \in positive : y.n * x.d <= x.n * y.d
                      IN  (sf * duration.n) \div duration.d]

\* args_list of main: (config, parent_config, sf, output_folder,
\* expected_packets) for config in configs, for sf in sampling_frequencies
ArgsList(expected) ==
    [i \in 1..(Len(configs) * Len(sampling_frequencies)) |->
        [config |-> configs[((i - 1) \div Len(sampling_frequencies)) + 1],
         sf |-> sampling_frequencies[((i - 1) % Len(sampling_frequencies)) + 1],
         expected_packets |-> expected]]

\* cpu_count()
PoolProcesses == 2

\* a worker process of the pool that runs no task
IdleWorker ==
    [pc |-> "idle", task |-> 0, csv_file |-> <<>>, actual_packets |-> None,
     packet_loss |-> 0]

\* Lines 834-882: expected_packets and args_list are built and the pool is
\* started; no task has been handed out.
PrepareAnalysis ==
    /\ func = "main"
    /\ pc = "analyse"
    /\ expected_packets' = ExpectedPackets(variant, csv_files)
    /\ args_list' = ArgsList(ExpectedPackets(variant, csv_files))
    /\ pool' = [w \in 1..PoolProcesses |-> IdleWorker]
    /\ results' = [i \in 1..(Len(configs) * Len(sampling_frequencies)) |->
                      [state |-> "queued", value |-> <<>>]]
    /\ pc' = "map"
    /\ UNCHANGED <<func, variant, source, log_file, all_events, timestamps,
                   csv_files, unit_idx, unit_inputs,
                   files_processed, expected_failed_created,
                   unexpected_failed_files, throughput_data, packet_loss_data,
                   average_time_data>>
    /\ UNCHANGED decvars

\* what a step of a worker leaves alone
WorkerUnchanged ==
    /\ UNCHANGED <<func, variant, pc, source, log_file, all_events, timestamps,
                   csv_files, unit_idx, unit_inputs,
                   files_processed, expected_failed_created,
                   unexpected_failed_files, expected_packets, args_list,
                   throughput_data, packet_loss_data, average_time_data>>
    /\ UNCHANGED decvars

\* An idle worker gets the next task of pool.map; lines 796-798 of
\* process_configuration_updated.
WorkerTake(w) ==
    /\ func = "main"
    /\ pc = "map"
    /\ pool[w].pc = "idle"
    /\ \E i \in 1..Len(results) :
          /\ results[i].state = "queued"
          /\ \A j \in 1..(i - 1) : results[j].state # "queued"
          /\ pool' = [pool EXCEPT ![w] =
                         [IdleWorker EXCEPT
                             !.pc = "actual", !.task = i,
                             !.csv_file = output_path[<<args_list[i].sf, args_list[i].config>>]]]
          /\ results' = [results EXCEPT ![i].state = "running"]
    /\ WorkerUnchanged

\* actual_packets = calculate_actual_packets(csv_file), and
\* throughput = calculate_throughput(csv_file) in process_neural_data
WorkerActual(w) ==
    /\ func = "main"
    /\ pc = "map"
    /\ pool[w].pc = "actual"
    /\ pool' = [pool EXCEPT ![w].pc = "loss",
                            ![w].actual_packets =
                                IF variant = PND2
                                THEN calculate_actual_packets(csv_files[pool[w].csv_file])
                                ELSE calculate_throughput(csv_files[pool[w].csv_file])]
    /\ UNCHANGED results
    /\ WorkerUnchanged

\* packet_loss = calculate_packet_loss(csv_file, expected_packets[sf]);
\* process_neural_data then returns (parent_config, sf, throughput, packet_loss)
WorkerLoss(w) ==
    /\ func = "main"
    /\ pc = "map"
    /\ pool[w].pc = "loss"
    /\ LET task == args_list[pool[w].task]
           packet_loss == calculate_packet_loss(csv_files[pool[w].csv_file],
                                                task.expected_packets[task.sf])
       IN  IF variant = PND2
           THEN /\ pool' = [pool EXCEPT ![w].pc = "average",
                                        ![w].packet_loss = packet_loss]
                /\ UNCHANGED results
           ELSE /\ pool' = [pool EXCEPT ![w] = IdleWorker]
                /\ results' = [results EXCEPT ![pool[w].task] =
                                  [state |-> "done",
                                   value |-> <<task.config, task.sf,
                                               pool[w].actual_packets, packet_loss>>]]
    /\ WorkerUnchanged

\* average_sample_time = calculate_average_time(csv_file) and the return of
\* (parent_config, sf, actual_packets, packet_loss, average_sample_time)
WorkerAverage(w) ==
    /\ func = "main"
    /\ pc = "map"
    /\ pool[w].pc = "average"
    /\ LET task == args_list[pool[w].task]
       IN  results' = [results EXCEPT ![pool[w].task] =
                          [state |-> "done",
                           value |-> <<task.config, task.sf, pool[w].actual_packets,
                                       pool[w].packet_loss,
                                       calculate_average_time(csv_files[pool[w].csv_file])>>]]
    /\ pool' = [pool EXCEPT ![w] = IdleWorker]
    /\ WorkerUnchanged

\* the keys (parent_config, sf) of the results
ResultKeys == {<<args_list[i].config, args_list[i].sf>> : i \in 1..Len(args_list)}

\* the result of the key
ResultOf(key) ==
    results[CHOOSE i \in 1..Len(results) :
                <<args_list[i].config, args_list[i].sf>> = key].value

\* pool.map has returned: the loop over the results, lines 885-908
MainCollect ==
    /\ func = "main"
    /\ pc = "map"
    /\ \A i \in 1..Len(results) : results[i].state = "done"
    /\ throughput_data' =
          [key \in ResultKeys |->
              [expected |-> expected_packets[key[2]],
               actual |-> IF ResultOf(key)[3] # None THEN ResultOf(key)[3][1] ELSE 0]]
    /\ packet_loss_data' = [key \in ResultKeys |-> ResultOf(key)[4]]
    /\ average_time_data' =
          IF variant = PND2
          THEN [key \in ResultKeys |-> ResultOf(key)[5]]
          ELSE average_time_data
    /\ pc' = "analysed"
    /\ UNCHANGED <<func, variant, source, log_file, all_events, timestamps,
                   csv_files, unit_idx, unit_inputs,
                   files_processed, expected_failed_created,
                   unexpected_failed_files, expected_packets, args_list, pool,
                   results>>
    /\ UNCHANGED decvars

\* max_allowed_packet_loss: the default of analyze_stability in
\* process_neural_data.py, MAX_ALLOWED_PACKET_LOSS in process_neural_data2.py
MAX_ALLOWED_PACKET_LOSS(v) == IF v = PND2 THEN 100 ELSE 10

\* analyze_stability(packet_loss_data, max_allowed_packet_loss): for every
\* config None, or <<the highest sf whose loss is within the allowance>>
analyze_stability(loss_data, max_allowed_packet_loss) ==
    [config \in {key[1] : key \in DOMAIN loss_data} |->
        LET stable_freqs ==
                {key[2] : key \in {k \in DOMAIN loss_data :
                                      /\ k[1] = config
                                      /\ loss_data[k] <= max_allowed_packet_loss}}
        IN  IF stable_freqs # {}
            THEN <<CHOOSE sf \in stable_freqs : \A x \in stable_freqs : x <= sf>>
            ELSE None]

MaxTables == 1

\* the files a decoder of the pipeline can write
WrittenFiles(v) ==
    {DecoderResults[v, x.name].file : x \in {y \in ExistingInputs : y.kind # "other"}}

\* the units <<sf, config>> the analysis reads the files of
ResultUnits ==
    {<<sampling_frequencies[i], configs[c]>> :
        i \in 1..Len(sampling_frequencies), c \in 1..Len(configs)}

\* The output folders process_files can leave: the failure marker for the
\* failed cases, and for every other unit the failure marker or, for up to
\* MaxTables of the units that are analysed, another file a decoder can write.
OutputFolders(v) ==
    LET free == {output_path[<<sf, config>>] :
                    <<sf, config>> \in
                        {u \in ResultUnits : u \notin failed_cases}}
    IN  UNION {{[name \in OutputNames |->
                    IF name \in with THEN written[name] ELSE FailedCsv] :
                written \in [with -> WrittenFiles(v) \ {FailedCsv}]} :
               with \in {x \in SUBSET free : Cardinality(x) <= MaxTables}}

\* main after process_files has returned
InitAnalysis ==
    /\ func = "main"
    /\ variant \in PipelineVariants
    /\ pc = "analyse"
    /\ DecIdle
    /\ source = <<>>
    /\ PlotIdle
    /\ csv_files \in OutputFolders(variant)
    /\ unit_idx = 0
    /\ unit_inputs = <<>>
    /\ files_processed = 0
    /\ expected_failed_created = 0
    /\ unexpected_failed_files = 0
    /\ expected_packets = <<>>
    /\ args_list = <<>>
    /\ pool = <<>>
    /\ results = <<>>
    /\ throughput_data = <<>>
    /\ packet_loss_data = <<>>
    /\ average_time_data = <<>>

NextAnalysis ==
    \/ PrepareAnalysis
    \/ \E w \in 1..PoolProcesses : WorkerTake(w)
    \/ \E w \in 1..PoolProcesses : WorkerActual(w)
    \/ \E w \in 1..PoolProcesses : WorkerLoss(w)
    \/ \E w \in 1..PoolProcesses : WorkerAverage(w)
    \/ MainCollect

SpecAnalysis == InitAnalysis /\ [][NextAnalysis]_vars

----------------------------------------------------------------------------
(* The decoders of process_neural_data2.py on sources whose records lie     *)
(* seconds apart, each call taken as one step                               *)

MaxSnippetRows == 3

\* the counter values of the records, in ms
SnippetTimes == {0, 1, 5000, 10000, 10001, 15000, 20000}

\* the records of a source, each with channels of its own
SnippetRecords ==
    UNION {{[i \in 1..k |-> MkRecord(36 + i, ts[i])] : ts \in [1..k -> SnippetTimes]} :
           k \in 1..MaxSnippetRows}

\* the folder with data_2.bin holding the records
SnippetFolder(records) ==
    Input("SnippetFolder", "dir", << <<2>> >>, <<records>>, <<>>)

\* the log with one notification line per record
SnippetLog(records) ==
    Input("SnippetLog", "file", <<>>, <<>>,
          [i \in 1..Len(records) |-> DataLine(HyphenHex(records[i]))])

\* decode_binary_files(input_folder, output_file)
SnippetDecodeFolder ==
    /\ func = "decode_binary_files"
    /\ pc = "start"
    /\ all_rows' = DecodedBinRows(variant, SnippetFolder(row_src))
    /\ output_file' = DecodeBinaryFiles(variant, SnippetFolder(row_src)).file
    /\ pc' = "done"
    /\ UNCHANGED <<func, variant, listing, bin_files, file_idx, binary_data,
                   channel_data, timestamp, base_timestamp_ms,
                   last_timestamp_ms, row_src, lines_seen, report, stale>>
    /\ UNCHANGED mainvars

\* decode_ble_log(input_file, output_file)
SnippetDecodeLog ==
    /\ func = "decode_ble_log"
    /\ pc = "start"
    /\ all_rows' = LineLoop(variant, <<>>, SnippetLog(row_src).lines).all_rows
    /\ output_file' = DecodeBleLog(variant, SnippetLog(row_src)).file
    /\ pc' = "done"
    /\ UNCHANGED <<func, variant, listing, bin_files, file_idx, binary_data,
                   channel_data, timestamp, base_timestamp_ms,
                   last_timestamp_ms, row_src, lines_seen, report, stale>>
    /\ UNCHANGED mainvars

\* row_src holds the records of the source
InitSnippet ==
    /\ func \in {"decode_binary_files", "decode_ble_log"}
    /\ variant = PND2
    /\ pc = "start"
    /\ listing = <<>>
    /\ bin_files = <<>>
    /\ file_idx = 0
    /\ binary_data = <<>>
    /\ channel_data = <<>>
    /\ timestamp = 0
    /\ base_timestamp_ms = 0
    /\ last_timestamp_ms = 0
    /\ all_rows = <<>>
    /\ row_src \in SnippetRecords
    /\ lines_seen = <<>>
    /\ report = ""
    /\ stale = FALSE
    /\ output_file = AbsentFile
    /\ source = <<>>
    /\ PlotIdle
    /\ MainIdle

NextSnippet ==
    \/ SnippetDecodeFolder
    \/ SnippetDecodeLog

SpecSnippet == InitSnippet /\ [][NextSnippet]_vars

----------------------------------------------------------------------------
(* decode_binary_files on a folder given by the bytes of its files: what    *)
(* bin_file.read(36) returns follows from the length of the file           *)

MaxFileRecords == 2

\* a whole number of records, and one byte or 35 bytes more
FileLengths ==
    {RECORD_SIZE * k + r : k \in 0..MaxFileRecords, r \in {0, 1, RECORD_SIZE - 1}}

\* the first k records of data_N.bin; the timestamps go up inside a file and
\* from a file to the file with the next number
RECURSIVE RecordsOf(_, _)
RecordsOf(name, k) ==
    IF k = 0 THEN <<>>
    ELSE RecordsOf(name, k - 1) \o MkRecord(37, 100 * FileKey(name) + 50 * k)

\* a folder holding data_2.bin and data_10.bin, each of one of the lengths
Sources ==
    {[name \in FileNames |->
        PySlice(RecordsOf(name, MaxFileRecords + 1), 0, len[name])] :
     len \in [FileNames -> FileLengths]}

\* what bin_file.read(36) returns, call after call, on a file of these bytes:
\* 36 bytes while there are as many, then what is left, then b''
RECURSIVE Reads(_)
Reads(bytes) ==
    IF bytes = <<>> THEN << <<>> >>
    ELSE <<PySlice(bytes, 0, RECORD_SIZE)>>
             \o Reads(PySlice(bytes, RECORD_SIZE, Len(bytes)))

\* Entry of the function up to the for loop, glob listing the files of the
\* folder in some order.
ReadStart ==
    /\ source # <<>>
    /\ BinStart
    /\ {listing'[i] : i \in 1..Len(listing')} = DOMAIN source

\* One pass of the for loop: the file is opened and read until a read
\* returns less than a record.
ReadFile ==
    /\ func = "decode_binary_files"
    /\ pc = "for_files"
    /\ source # <<>>
    /\ file_idx < Len(bin_files)
    /\ \E reads \in {Reads(source[bin_files[file_idx + 1]])} :
       \E st \in {ReadLoop(variant,
                            [all_rows |-> Rows,
                             base_timestamp_ms |-> base_timestamp_ms,
                             last_timestamp_ms |-> last_timestamp_ms], reads)} :
       \E n \in {Len(st.all_rows) - Len(Rows)} :
          /\ IF variant = BINARYDECODER
             THEN /\ output_file' = Table(st.all_rows)
                  /\ UNCHANGED all_rows
             ELSE /\ all_rows' = st.all_rows
                  /\ UNCHANGED output_file
          /\ base_timestamp_ms' = st.base_timestamp_ms
          /\ last_timestamp_ms' = st.last_timestamp_ms
          /\ binary_data' = reads[n + 1]
          /\ report' = IF reads[n + 1] = <<>> THEN "" ELSE ShortReadReport(variant)
          /\ channel_data' =
                IF n = 0 THEN channel_data ELSE UnpackChannels(variant, reads[n])
          /\ timestamp' = IF n = 0 THEN timestamp ELSE UnpackTimestamp(reads[n])
          /\ row_src' =
                row_src \o [k \in 1..n |->
                               [file |-> bin_files[file_idx + 1], bytes |-> reads[k]]]
    /\ file_idx' = file_idx + 1
    /\ UNCHANGED <<func, variant, pc, listing, bin_files, lines_seen, stale>>
    /\ UNCHANGED mainvars

InitRead ==
    /\ func = "decode_binary_files"
    /\ variant \in BinVariants
    /\ pc = "start"
    /\ DecIdle
    /\ source \in Sources
    /\ PlotIdle
    /\ MainIdle

NextRead ==
    \/ ReadStart
    \/ ReadFile
    \/ BinFinish

SpecRead == InitRead /\ [][NextRead]_vars

----------------------------------------------------------------------------
(* plot_attribute_deviation.py: parse_log_file, a line of the log a step.   *)
(* A datetime is the number of microseconds since 00:00 of the day of the   *)
(* log, a timedelta a number of microseconds.                               *)

SNIPPET_DURATION_SECONDS == 10

MaxLogLines == 4

\* A line of a log: the characters dddd-dd-ddTdd:dd:dd.dddZ it holds, given
\* by the digits after the date, whether they stand at the start of the
\* line, and whether 'INFO Attribute value changed' follows them.
LogLine(hh, mm, ss, mmm, at_start, changed) ==
    [stamp |-> [hour |-> hh, minute |-> mm, second |-> ss, msec |-> mmm],
     at_start |-> at_start, changed |-> changed]

\* the lines of the logs: events on both sides of the minute, a line of
\* another kind, an event line that is indented, and one with the hour 25
LogLines ==
    {LogLine(0, 0, 50, 0, TRUE, TRUE), LogLine(0, 0, 55, 0, TRUE, TRUE),
     LogLine(0, 0, 55, 1, TRUE, TRUE), LogLine(0, 1, 5, 1, TRUE, TRUE),
     LogLine(0, 1, 5, 2, TRUE, TRUE), LogLine(0, 1, 10, 2, TRUE, TRUE),
     LogLine(0, 1, 0, 0, TRUE, FALSE), LogLine(0, 0, 57, 0, FALSE, TRUE),
     LogLine(25, 0, 57, 0, TRUE, TRUE)}

\* what can be at the path log_file: nothing, something open() cannot
\* read, or a file of lines
LogFiles ==
    {[kind |-> "missing", lines |-> <<>>], [kind |-> "unreadable", lines |-> <<>>]}
        \cup {[kind |-> "file", lines |-> lines] :
                 lines \in UNION {[1..k -> LogLines] : k \in 0..MaxLogLines}}

\* re.search(pattern, line): the pattern is anchored at the start of the line
match(line) == line.at_start /\ line.changed

\* datetime.strptime(timestamp_str, '%Y-%m-%dT%H:%M:%S.%fZ'): None for the
\* ValueError, or <<the datetime>>; %f reads the three digits as milliseconds
strptime(stamp) ==
    IF stamp.hour > 23 \/ stamp.minute > 59 \/ stamp.second > 59 THEN <<>>
    ELSE <<((stamp.hour * 60 + stamp.minute) * 60 + stamp.second) * 1000000
             + stamp.msec * 1000>>

\* Lines 78-98 of parse_log_file: the return statement reached and the list
\* timestamps.  total_duration is a whole number of milliseconds, so
\* total_duration / 2 - snippet_duration / 2 is a whole number of
\* microseconds, which timedelta(seconds=...) rounds the float to.
MiddleSnippetHalfOpen(events, snippet_duration) ==
    IF events = <<>> THEN [pc |-> "return []", timestamps |-> <<>>]
    ELSE LET start_time == events[1]
             end_time == events[Len(events)]
             total_duration == end_time - start_time
         IN  IF total_duration <= snippet_duration * 1000000
             THEN [pc |-> "return all_events", timestamps |-> <<>>]
             ELSE LET snippet_start ==
                          start_time + ((total_duration \div 2)
                                          - ((snippet_duration * 1000000) \div 2))
                      snippet_end == snippet_start + snippet_duration * 1000000
                  IN  [pc |-> "return timestamps",
                       timestamps |->
                           SelectSeq(events,
                                     LAMBDA t : snippet_start <= t /\ t < snippet_end)]
MiddleSnippet(events, snippet_duration) ==
    IF events = <<>> THEN [pc |-> "return []", timestamps |-> <<>>]
    ELSE LET start_time == events[1]
             end_time == events[Len(events)]
             total_duration == end_time - start_time
         IN  IF total_duration <= snippet_duration * 1000000
             THEN [pc |-> "return all_events", timestamps |-> <<>>]
             ELSE LET snippet_start ==
                          start_time + ((total_duration \div 2)
                                          - ((snippet_duration * 1000000) \div 2))
                      snippet_end == snippet_start + snippet_duration * 1000000
                  IN  [pc |-> "return timestamps",
                       timestamps |->
                           SelectSeq(events,
                                     LAMBDA t : snippet_start <= t /\ t <= snippet_end)]

\* what a step of parse_log_file leaves alone
ParseUnchanged ==
    UNCHANGED <<func, variant, listing, bin_files, file_idx, binary_data,
                channel_data, timestamp, base_timestamp_ms, last_timestamp_ms,
                all_rows, row_src, stale, output_file, source, log_file,
                csv_files, unit_idx, unit_inputs, files_processed,
                expected_failed_created, unexpected_failed_files,
                expected_packets, args_list, pool, results, throughput_data,
                packet_loss_data, average_time_data>>

\* with open(log_file, 'r') as file, and the two except clauses at the end
ParseOpen ==
    /\ func = "parse_log_file"
    /\ pc = "open"
    /\ IF log_file.kind = "file"
       THEN /\ pc' = "for_line"
            /\ UNCHANGED report
       ELSE /\ pc' = "return timestamps"
            /\ report' = IF log_file.kind = "missing"
                         THEN "Log file not found"
                         ELSE "Error parsing log file"
    /\ UNCHANGED <<lines_seen, all_events, timestamps>>
    /\ ParseUnchanged

\* for line in file: one pass of the body
ParseLine ==
    /\ func = "parse_log_file"
    /\ pc = "for_line"
    /\ Len(lines_seen) < Len(log_file.lines)
    /\ \E line \in {log_file.lines[Len(lines_seen) + 1]} :
          /\ lines_seen' = Append(lines_seen, line)
          /\ IF ~match(line)
             THEN UNCHANGED <<all_events, report>>
             ELSE IF strptime(line.stamp) = <<>>
                  THEN /\ report' = "Failed to parse timestamp"
                       /\ UNCHANGED all_events
                  ELSE /\ all_events' = Append(all_events, strptime(line.stamp)[1])
                       /\ UNCHANGED report
    /\ UNCHANGED <<pc, timestamps>>
    /\ ParseUnchanged

\* the file is exhausted: lines 78-98 up to one of the return statements
ParseSnippet ==
    /\ func = "parse_log_file"
    /\ pc = "for_line"
    /\ Len(lines_seen) = Len(log_file.lines)
    /\ \E r \in {MiddleSnippet(all_events, SNIPPET_DURATION_SECONDS)} :
          /\ pc' = r.pc
          /\ timestamps' = r.timestamps
          /\ report' = IF r.pc = "return []" THEN "No events found"
                       ELSE IF r.pc = "return all_events" THEN "Analyzing entire file"
                       ELSE "Extracted events"
    /\ UNCHANGED <<lines_seen, all_events>>
    /\ ParseUnchanged

\* the list parse_log_file returns
Returned ==
    IF pc = "return all_events" THEN all_events
    ELSE IF pc = "return []" THEN <<>>
    ELSE timestamps

InitParse ==
    /\ func = "parse_log_file"
    /\ variant = PLOT
    /\ pc = "open"
    /\ DecIdle
    /\ source = <<>>
    /\ log_file \in LogFiles
    /\ all_events = <<>>
    /\ timestamps = <<>>
    /\ MainIdle

NextParse ==
    \/ ParseOpen
    \/ ParseLine
    \/ ParseSnippet

SpecParse == InitParse /\ [][NextParse]_vars

----------------------------------------------------------------------------
(* Properties of decode_binary_files *)

\* the raw hardware timestamps of the records decoded so far, read off the
\* bytes of each record
RawOf(bytes) == bytes[33] + 256 * bytes[34] + 65536 * bytes[35]
                    + 16777216 * bytes[36]
RawFed == [i \in 1..Len(row_src) |-> RawOf(row_src[i].bytes)]
\* the absolute milliseconds emitted so far (the timestamp cells times 1000)
EmittedMs == [i \in 1..Len(all_rows) |-> all_rows[i][1].n]
\* the number N of data_N.bin
NumberOf(name) == IF name = <<2>> THEN 2 ELSE IF name = <<1, 0>> THEN 10 ELSE -1

InReconciler == func = "decode_binary_files" /\ variant = PND2

\* C1: from the reset state, the raw timestamps 100, 200, 50, 80 are emitted
\* as 100, 200, 250, 280 absolute milliseconds, and the base offset is 200
\* after the third record and after the fourth.
C1_WrapExample ==
    InReconciler =>
        /\ RawFed = <<100, 200, 50>> =>
              EmittedMs = <<100, 200, 250>> /\ base_timestamp_ms = 200
        /\ RawFed = <<100, 200, 50, 80>> =>
              EmittedMs = <<100, 200, 250, 280>> /\ base_timestamp_ms = 200

\* raw timestamps do not decrease inside a file
NonDecreasingInFiles ==
    \A i \in 1..Len(row_src) - 1 :
        row_src[i].file = row_src[i + 1].file => RawFed[i] <= RawFed[i + 1]

\* C2: when the raw timestamps do not decrease inside each file (a new file
\* may start lower than the previous one ended), the elapsed times emitted
\* over the whole sequence never decrease.
C2_ElapsedMonotone ==
    (InReconciler /\ NonDecreasingInFiles) =>
        \A i \in 1..Len(all_rows) - 1 :
            /\ all_rows[i][1].d = 1000
            /\ all_rows[i + 1][1].d = 1000
            /\ all_rows[i][1].n <= all_rows[i + 1][1].n

\* a second file started below the last timestamp of the first
C2_Witness ==
    /\ InReconciler
    /\ NonDecreasingInFiles
    /\ Len(all_rows) = 4
    /\ \E i \in 1..3 : /\ row_src[i].file # row_src[i + 1].file
                       /\ RawFed[i + 1] < RawFed[i]

\* C6: a read of zero bytes ends the file normally; a read of 1..35 bytes
\* decodes nothing and is reported, distinguishably from the clean end.
C6_ShortReadReported ==
    (func = "decode_binary_files" /\ pc = "for_files") =>
        /\ Len(binary_data) = 0 => report = ""
        /\ Len(binary_data) \in 1..(RECORD_SIZE - 1) => report # ""

\* C9: the files are processed in ascending order of the number N of
\* data_N.bin whatever the order of the listing, and the rows keep it.
C9_NumericFileOrder ==
    func = "decode_binary_files" =>
        /\ Len(bin_files) = Len(listing)
        /\ {bin_files[i] : i \in 1..Len(bin_files)}
              = {listing[i] : i \in 1..Len(listing)}
        /\ \A i \in 1..Len(bin_files) - 1 :
              NumberOf(bin_files[i]) <= NumberOf(bin_files[i + 1])
        /\ \A i \in 1..Len(row_src) - 1 :
              NumberOf(row_src[i].file) <= NumberOf(row_src[i + 1].file)
        /\ (pc = "while_read" /\ Len(row_src) > 0) =>
              NumberOf(row_src[Len(row_src)].file)
                  <= NumberOf(bin_files[file_idx])

\* the listing had data_10.bin before data_2.bin and both gave rows
C9_Witness ==
    /\ func = "decode_binary_files"
    /\ pc = "done"
    /\ listing = <<<<1, 0>>, <<2>>>>
    /\ \E i \in 1..Len(row_src) - 1 :
          row_src[i].file = <<2>> /\ row_src[i + 1].file = <<1, 0>>

\* C10: the reconciler state is reset to 0, 0 when a sequence starts and is
\* not reset between the files of a sequence; the first record of a sequence
\* is emitted as its raw timestamp / 1000.
C10_ResetPerSequence ==
    [][ InReconciler =>
          /\ (pc \in {"start", "done"} /\ pc' = "for_files") =>
                base_timestamp_ms' = 0 /\ last_timestamp_ms' = 0
          /\ (pc = "for_files" /\ pc' = "while_read") =>
                UNCHANGED <<base_timestamp_ms, last_timestamp_ms>>
          /\ (pc = "while_read" /\ pc' = "for_files") =>
                UNCHANGED <<base_timestamp_ms, last_timestamp_ms>>
          /\ (Len(all_rows) = 0 /\ Len(all_rows') = 1) =>
                all_rows'[1][1] = [n |-> RawFed'[1], d |-> 1000]
    ]_vars

\* a second sequence follows one that left a nonzero state, and has carried
\* its own state from its first file into its second
C10_Witness ==
    /\ InReconciler
    /\ stale
    /\ pc = "while_read"
    /\ file_idx = 2
    /\ Len(all_rows) >= 2
    /\ row_src[1].file # row_src[Len(row_src)].file
    /\ last_timestamp_ms > 0

\* C23: the step of the reconciler on a whole record with raw timestamp t:
\* base_timestamp_ms grows by last_timestamp_ms when t < last_timestamp_ms
\* and only then; the row emitted carries (t + the new base) / 1000 and
\* last_timestamp_ms becomes t + the new base.  Every whole record takes the
\* step, from every state: the loop goes on with one row more.
C23_ReconcilerStep ==
    [][ (/\ InReconciler
         /\ pc = "while_read"
         /\ Len(binary_data') = RECORD_SIZE) =>
            LET t == RawOf(binary_data')
                base == IF t < last_timestamp_ms
                        THEN base_timestamp_ms + last_timestamp_ms
                        ELSE base_timestamp_ms
            IN  /\ base_timestamp_ms' = base
                /\ last_timestamp_ms' = t + base
                /\ Len(all_rows') = Len(all_rows) + 1
                /\ all_rows'[Len(all_rows')][1] = [n |-> t + base, d |-> 1000]
                /\ SubSeq(all_rows', 1, Len(all_rows)) = all_rows
                /\ pc' = "while_read"
    ]_vars

\* a raw timestamp equal to the last one, then a drop, then a raw timestamp
\* above the absolute one
C23_Witness ==
    /\ InReconciler
    /\ RawFed = <<100, 100, 50, 200>>
    /\ EmittedMs = <<100, 100, 150, 300>>
    /\ base_timestamp_ms = 100
    /\ last_timestamp_ms = 300

\* the elapsed time of the counter epochs before record k: the last raw
\* timestamp of every epoch that a lower raw timestamp has ended
EpochsBefore[k \in 0..MaxRows + 1] ==
    IF k <= 1 THEN 0
    ELSE EpochsBefore[k - 1]
             + (IF RawFed[k] < RawFed[k - 1] THEN RawFed[k - 1] ELSE 0)

\* C24: after each record last_timestamp_ms is the raw timestamp of that
\* record and base_timestamp_ms is the elapsed time of the earlier counter
\* epochs, a drop being a raw timestamp below the raw timestamp of the
\* record before it.
C24_LastIsRawTimestamp ==
    (InReconciler /\ Len(all_rows) >= 1) =>
        /\ last_timestamp_ms = RawFed[Len(RawFed)]
        /\ base_timestamp_ms = EpochsBefore[Len(RawFed)]

\* C25: in every state of the reconciler 0 <= base_timestamp_ms <=
\* last_timestamp_ms, and from one step to the next inside a sequence neither
\* of them decreases, nor does the time emitted, whatever the order of the
\* raw timestamps.
C25_ReconcilerMonotone ==
    /\ [](InReconciler =>
            /\ 0 <= base_timestamp_ms
            /\ base_timestamp_ms <= last_timestamp_ms
            /\ \A i \in 1..Len(EmittedMs) - 1 : EmittedMs[i] <= EmittedMs[i + 1]
            /\ Len(EmittedMs) >= 1 =>
                  EmittedMs[Len(EmittedMs)] <= last_timestamp_ms)
    /\ [][(InReconciler /\ pc \in {"for_files", "while_read"}) =>
             /\ base_timestamp_ms' >= base_timestamp_ms
             /\ last_timestamp_ms' >= last_timestamp_ms]_vars

\* four records out of order, every one after the first taken for a drop
C25_Witness ==
    /\ InReconciler
    /\ RawFed = <<200, 50, 100, 80>>
    /\ EmittedMs = <<200, 250, 550, 1080>>
    /\ base_timestamp_ms = 1000
    /\ last_timestamp_ms = 1080

\* the rows of the whole records of a file, in the order of the file
RowsOfFile(v, bytes) ==
    [k \in 1..(Len(bytes) \div RECORD_SIZE) |->
        BinRow(v, SubSeq(bytes, RECORD_SIZE * (k - 1) + 1, RECORD_SIZE * k), 0, 0)]

\* the rows of the files in this order
RECURSIVE RowsOfFiles(_, _)
RowsOfFiles(v, files) ==
    IF files = <<>> THEN <<>>
    ELSE RowsOfFiles(v, SubSeq(files, 1, Len(files) - 1))
             \o RowsOfFile(v, source[files[Len(files)]])

\* C26: a file of n bytes gives floor(n / 36) rows, those of its whole
\* records in their order, and a partial record at the end of a file ends
\* that file only: the rows decoded once the loop is past a file are the
\* rows of the whole records of every file up to it.
C26_WholeRecordsOfEachFile ==
    (func = "decode_binary_files" /\ pc \in {"for_files", "done"}) =>
        Rows = RowsOfFiles(variant, SubSeq(bin_files, 1, file_idx))

\* data_2.bin of 73 bytes and data_10.bin of 71, listed the other way round
C26_Witness ==
    /\ func = "decode_binary_files"
    /\ pc = "for_files"
    /\ file_idx = 2
    /\ listing = <<<<1, 0>>, <<2>>>>
    /\ Len(source[<<2>>]) = 2 * RECORD_SIZE + 1
    /\ Len(source[<<1, 0>>]) = 2 * RECORD_SIZE - 1
    /\ Len(Rows) = 3
    /\ Rows[3][1].n = 1050

\* C22: a read of 1..35 bytes is found before the reconciler is reached: it
\* adds no row, unpacks no timestamp and leaves base_timestamp_ms and
\* last_timestamp_ms as the last whole record left them.
C22_ShortReadBeforeReconciliation ==
    [][ (/\ InReconciler
         /\ pc = "while_read"
         /\ Len(binary_data') \in 1..(RECORD_SIZE - 1)) =>
            /\ UNCHANGED <<base_timestamp_ms, last_timestamp_ms>>
            /\ UNCHANGED <<timestamp, channel_data, all_rows, row_src>>
    ]_vars

\* a file ended in a partial record after whole records that had moved the
\* base offset
C22_Witness ==
    /\ InReconciler
    /\ pc = "for_files"
    /\ Len(binary_data) \in 1..(RECORD_SIZE - 1)
    /\ Len(all_rows) >= 2
    /\ base_timestamp_ms > 0
    /\ last_timestamp_ms > base_timestamp_ms

----------------------------------------------------------------------------
(* Properties of decode_ble_log *)

InBle == func = "decode_ble_log"
LastLine == lines_seen[Len(lines_seen)]
Seen(line) == \E i \in 1..Len(lines_seen) : lines_seen[i] = line
\* the loop has not been left through the exception handler
NotRaised == pc = "for_lines" \/ (pc = "done" /\ report # "error")
ValidSeen == SelectSeq(lines_seen, LAMBDA l : l \in ValidLines)

C4_WrongLengthSkipped ==
    (InBle /\ Len(lines_seen) > 0 /\ LastLine \in {ShortLine, LongLine}) =>
        /\ report = "invalid data length"
        /\ NotRaised
        /\ (pc = "done" /\ all_rows # <<>>) => output_file.kind = "table"

\* C5: a matching line whose payload is no hex string is skipped and the
\* rows of the other lines are in the output.
C5_UnparsableHexSkipped ==
    (InBle /\ Len(lines_seen) > 0 /\ LastLine \in {OddLine, NonHexLine}) =>
        /\ report # "error"
        /\ NotRaised
        /\ (pc = "done" /\ all_rows # <<>>) => output_file.kind = "table"

----------------------------------------------------------------------------
(* Properties of the decoding of one record *)

\* struct.pack of one 16-bit integer, signed or not, low byte first
PackShort(x) == LET u == IF x < 0 THEN x + 65536 ELSE x
                IN  <<u % 256, u \div 256>>
RECURSIVE PackShorts(_)
PackShorts(xs) == IF xs = <<>> THEN <<>>
                  ELSE PackShort(xs[1]) \o PackShorts(Tail(xs))

\* C7: unpacking a 36-byte record into 16 little-endian 16-bit integers and
\* one little-endian unsigned 32-bit timestamp and packing these 17 integers
\* back gives the 36 bytes again, for signed and for unsigned channels.
C7_RoundTrip ==
    pc = "unpacked" =>
        /\ Len(channel_data) = MAX_CHANNELS
        /\ \A k \in 1..MAX_CHANNELS :
              IF variant = BINARYDECODER
              THEN channel_data[k] \in 0..65535
              ELSE channel_data[k] \in -32768..32767
        /\ timestamp >= 0
        /\ PackShorts(channel_data) \o LE32(timestamp) = binary_data

\* a negative channel and a timestamp that needs its high bytes
C7_Witness ==
    /\ pc = "unpacked"
    /\ variant = PND2
    /\ \E k \in 1..MAX_CHANNELS : channel_data[k] = -32768
    /\ timestamp = 16909060

\* the cell of a channel whose two bytes are lo, hi
ChannelCell(v, lo, hi) ==
    IF v = BINARYDECODER THEN [n |-> lo + 256 * hi, d |-> 1]
    ELSE [n |-> (IF hi >= 128 THEN lo + 256 * hi - 65536 ELSE lo + 256 * hi)
                    * 195,
          d |-> 1000]

\* C8: a row is one timestamp followed by exactly 16 channel values, the
\* k-th of which comes from bytes 2(k-1) and 2(k-1)+1 of the record.
C8_RowLayout ==
    pc = "unpacked" =>
        \A i \in 1..Len(all_rows) :
            /\ Len(all_rows[i]) = 1 + 16
            /\ all_rows[i][1].n = RawOf(binary_data)
            /\ \A k \in 1..16 :
                  all_rows[i][k + 1] =
                      ChannelCell(variant, binary_data[2 * (k - 1) + 1],
                                  binary_data[2 * (k - 1) + 2])

\* a row of the log decoder whose 16th channel differs from all others
C8_Witness ==
    /\ pc = "unpacked"
    /\ func = "decode_ble_log"
    /\ Len(all_rows) = 1
    /\ all_rows[1][17].n = -32768 * 195
    /\ \A k \in 1..15 : all_rows[1][k + 1] # all_rows[1][17]

\* the unsigned 16-bit integer of the two bytes of channel k of a record
UnsignedChannel(rec, k) == rec[2 * k - 1] + 256 * rec[2 * k]

\* C18: binarydecoder gives each channel as the unsigned little-endian
\* 16-bit integer of its two bytes, in 0..65535, unscaled; the pipeline
\* decoders give the signed two's-complement integer of the two bytes, in
\* -32768..32767, times 0.195; the timestamp is in both the unsigned
\* little-endian 32-bit integer of bytes 32..35.
C18_ChannelModes ==
    (pc = "unpacked" /\ func = "decode_binary_files") =>
        /\ \A k \in 1..MAX_CHANNELS :
              LET u == UnsignedChannel(binary_data, k)
                  value == all_rows[1][k + 1]
              IN  IF variant = BINARYDECODER
                  THEN /\ channel_data[k] = u
                       /\ value.d = 1
                       /\ value.n = u
                       /\ value.n \in 0..65535
                  ELSE /\ channel_data[k] \in -32768..32767
                       /\ (channel_data[k] - u) % 65536 = 0
                       /\ value.d = 1000
                       /\ value.n = 195 * channel_data[k]
        /\ timestamp >= 0
        /\ timestamp = binary_data[33] + 256 * binary_data[34]
                           + 65536 * binary_data[35] + 16777216 * binary_data[36]

\* a raw-mode channel above 32767 and a timestamp that needs all four bytes
C18_Witness ==
    /\ pc = "unpacked"
    /\ variant = BINARYDECODER
    /\ \E k \in 1..MAX_CHANNELS : channel_data[k] = 65535 /\ all_rows[1][k + 1].n = 65535
    /\ timestamp = 2147483647

----------------------------------------------------------------------------
(* Properties of the pipeline decoders *)

\* C11: when a source unit gives no decoded record (a folder without
\* data_*.bin files, files that give no whole record, a log without a
\* decodable line), decode_binary_files and decode_ble_log of the pipeline
\* return without raising and the output file is the failure marker.
C11_NoRecordFailureMarker ==
    (variant \in PipelineVariants /\ func \in {"decode_binary_files", "decode_ble_log"}) =>
        /\ pc # "raised"
        /\ (pc = "done" /\ all_rows = <<>>) => output_file = FailedCsv

\* two files were opened and read to their end without a record
C11_Witness ==
    /\ variant \in PipelineVariants
    /\ func = "decode_binary_files"
    /\ pc = "done"
    /\ Len(bin_files) = 2
    /\ file_idx = 2
    /\ all_rows = <<>>
    /\ output_file = FailedCsv

----------------------------------------------------------------------------
(* Properties of process_files *)

UnitSet == {Units[i] : i \in 1..Len(Units)}
\* the file at the output path of a unit
CsvOf(unit) == csv_files[output_path[unit]]
\* what a visited unit found at its input path
InputOf(unit) ==
    Inputs[unit_inputs[CHOOSE i \in 1..Len(unit_inputs) :
                           unit_inputs[i].unit = unit].input]
\* the header timestamp, ch1..ch16 and at least one row of 17 values
SampleTable(f) ==
    /\ f.kind = "table"
    /\ Len(f.rows) >= 1
    /\ \A i \in 1..Len(f.rows) : Len(f.rows[i]) = 1 + MAX_CHANNELS
\* nothing can be decoded from the input: no input path, a
\* path of another type, a folder none of whose files starts with a whole
\* record, a log without a valid line or with an unparsable one
Unprocessable(input) ==
    \/ input.kind \in {"missing", "other"}
    \/ /\ input.kind = "dir"
       /\ \A i \in 1..Len(input.content) :
             input.content[i] = <<>> \/ Len(input.content[i][1]) # RECORD_SIZE
    \/ /\ input.kind = "file"
       /\ \/ \A i \in 1..Len(input.lines) : input.lines[i] \notin ValidLines
          \/ \E i \in 1..Len(input.lines) : input.lines[i] \in {OddLine, NonHexLine}

\* C12: when process_files has returned, the output file of every unit of
\* the mapping exists and is either a sample table (header timestamp,
\* ch1..ch16) with at least one row or the failure marker, and it is the
\* failure marker for every unit that could not be processed.
C12_TableOrFailureMarker ==
    (func = "process_files" /\ pc = "returned") =>
        \A u \in UnitSet :
            /\ SampleTable(CsvOf(u)) \/ CsvOf(u) = FailedCsv
            /\ (u \in failed_cases \/ Unprocessable(InputOf(u)))
                  => CsvOf(u) = FailedCsv

\* a folder whose snippet window holds no row, a log without a notification
\* and a unit with a table
C12_Witness ==
    /\ func = "process_files"
    /\ pc = "returned"
    /\ \E u \in UnitSet : InputOf(u).name = "WideFolder" /\ CsvOf(u) = FailedCsv
    /\ \E u \in UnitSet : InputOf(u).name = "TableLog" /\ SampleTable(CsvOf(u))
    /\ \E u \in UnitSet : u \in failed_cases /\ CsvOf(u) = FailedCsv

\* C13: process_files visits every unit of the mapping exactly once, in the
\* order of the mapping; a unit whose input is missing, of another type or
\* makes the decoder raise gets the failure marker and the loop goes on;
\* no exception leaves process_files.
C13_EveryUnitVisitedOnce ==
    func = "process_files" =>
        /\ pc \in {"for_units", "returned"}
        /\ Len(unit_inputs) = unit_idx
        /\ \A i \in 1..Len(unit_inputs) : unit_inputs[i].unit = Units[i]
        /\ \A i, j \in 1..Len(unit_inputs) :
              i # j => unit_inputs[i].unit # unit_inputs[j].unit
        /\ \A i \in 1..Len(unit_inputs) :
              unit_inputs[i].input \in {"Missing", "Other", "RaisingLog"}
                  => CsvOf(unit_inputs[i].unit) = FailedCsv
        /\ pc = "returned" =>
              /\ Len(unit_inputs) = Len(Units)
              /\ {unit_inputs[i].unit : i \in 1..Len(unit_inputs)} = UnitSet

\* a missing input, then a log that makes the decoder raise, then a folder
\* that gave a table
C13_Witness ==
    /\ func = "process_files"
    /\ pc = "returned"
    /\ \E i, j, k \in 1..Len(unit_inputs) :
          /\ i < j
          /\ j < k
          /\ unit_inputs[i].input = "Missing"
          /\ unit_inputs[j].input = "RaisingLog"
          /\ unit_inputs[k].input = "TwoRecordFolder"
          /\ CsvOf(unit_inputs[j].unit) = FailedCsv
          /\ SampleTable(CsvOf(unit_inputs[k].unit))

\* C20: in the summary of process_files the units counted as processed are
\* those for which a sample table was written, and the units whose output
\* is the failure marker are those counted as expected or unexpected
\* failures.
C20_ProcessedMeansTable ==
    (func = "process_files" /\ pc = "returned") =>
        /\ files_processed
              = Cardinality({u \in UnitSet : CsvOf(u).kind = "table"})
        /\ expected_failed_created + unexpected_failed_files
              = Cardinality({u \in UnitSet : CsvOf(u) = FailedCsv})

\* C27: every unit of the mapping increments exactly one of
\* files_processed, expected_failed_created and unexpected_failed_files, so
\* their sum is the number of units visited and, on return,
\* total_expected_files, and expected_failed_created is then
\* total_expected_failed.
C27_OneCounterPerUnit ==
    /\ [](func = "process_files" =>
            /\ files_processed + expected_failed_created + unexpected_failed_files
                  = unit_idx
            /\ pc = "returned" =>
                  /\ files_processed + expected_failed_created
                        + unexpected_failed_files = total_expected_files
                  /\ expected_failed_created = total_expected_failed)
    /\ [][(func = "process_files" /\ unit_idx' # unit_idx) =>
             LET grown == <<files_processed' - files_processed,
                            expected_failed_created' - expected_failed_created,
                            unexpected_failed_files' - unexpected_failed_files>>
             IN  grown \in {<<1, 0, 0>>, <<0, 1, 0>>, <<0, 0, 1>>}]_vars

\* process_files has returned with units counted by each of the counters
C27_Witness ==
    /\ func = "process_files"
    /\ pc = "returned"
    /\ files_processed = 2
    /\ expected_failed_created = 12
    /\ unexpected_failed_files = 4
    /\ total_expected_files = 18

\* C28: for a unit listed in failed_cases process_files writes the failure
\* marker and counts an expected failure, whatever is at the input path of
\* the unit, a source that would decode to a table included; the unit is
\* not counted as processed nor as an unexpected failure.
C28_FailedCaseNotRead ==
    /\ [](func = "process_files" =>
            \A i \in 1..Len(unit_inputs) :
                unit_inputs[i].unit \in failed_cases =>
                    CsvOf(unit_inputs[i].unit) = FailedCsv)
    /\ [][(/\ func = "process_files"
           /\ unit_idx' # unit_idx
           /\ Units[unit_idx + 1] \in failed_cases) =>
             /\ csv_files'[output_path[Units[unit_idx + 1]]] = FailedCsv
             /\ expected_failed_created' = expected_failed_created + 1
             /\ files_processed' = files_processed
             /\ unexpected_failed_files' = unexpected_failed_files
             /\ pc' = pc]_vars

\* failed cases were visited with a log and a folder at their input paths
\* that decode to tables, and no unit has been counted as processed
C28_Witness ==
    /\ func = "process_files"
    /\ files_processed = 0
    /\ expected_failed_created >= 2
    /\ \E i, j \in 1..Len(unit_inputs) :
          /\ unit_inputs[i].unit \in failed_cases
          /\ unit_inputs[i].input = "TableLog"
          /\ DecoderResults[variant, "TableLog"].file.kind = "table"
          /\ unit_inputs[j].unit \in failed_cases
          /\ unit_inputs[j].input = "TwoRecordFolder"
          /\ DecoderResults[variant, "TwoRecordFolder"].file.kind = "table"
          /\ CsvOf(unit_inputs[i].unit) = FailedCsv
          /\ CsvOf(unit_inputs[j].unit) = FailedCsv

----------------------------------------------------------------------------
(* Properties of the snippet selection *)

\* The rows of a table whose time lies in the closed window of length w
\* around the middle of the table, the whole table when it spans less than
\* w; the times are the integers n of the cells, w is in their unit.
RowsInWindow(rows, w) ==
    LET m == MinTs(rows)
        D == MaxTs(rows) - m
    IN  IF D < w THEN rows
        ELSE SelectSeq(rows, LAMBDA r : /\ 2 * r[1].n >= 2 * m + D - w
                                        /\ 2 * r[1].n <= 2 * m + D + w)

\* C14: the snippet of a decoded table with minimum m and duration
\* D = max - min is the whole table when D < W, and otherwise exactly the
\* rows with m + D/2 - W/2 <= timestamp <= m + D/2 + W/2, in their order (so
\* the whole table when D = W): a table that is written holds these rows,
\* and the failure marker is written only when there are none of them or,
\* from the binary files, when they span no time.
C14_SnippetWindow ==
    (pc = "done" /\ all_rows # <<>>) =>
        LET snippet_df ==
                RowsInWindow(all_rows, SNIPPET_DURATION(variant) * all_rows[1][1].d)
        IN  /\ output_file.kind = "table" => output_file.rows = snippet_df
            /\ output_file = FailedCsv =>
                   \/ snippet_df = <<>>
                   \/ /\ func = "decode_binary_files"
                      /\ MaxTs(snippet_df) = MinTs(snippet_df)

----------------------------------------------------------------------------
(* Properties of the rows of the pipeline decoders *)

\* C15: in a sample table written by decode_binary_files or decode_ble_log
\* the timestamp of each row is greater than or equal to the timestamp of
\* the row before it, also when the counter of the source goes back.
C15_RowsInTimeOrder ==
    output_file.kind = "table" =>
        \A i \in 1..Len(output_file.rows) - 1 :
            output_file.rows[i][1].n <= output_file.rows[i + 1][1].n

\* C16: the timestamp of every row handed to the snippet selection, and of
\* every row written, is the millisecond value divided by 1000, in the
\* binary and in the log-line decoder.
C16_TimestampInSeconds ==
    /\ \A i \in 1..Len(all_rows) : all_rows[i][1].d = 1000
    /\ \A i \in 1..Len(output_file.rows) : output_file.rows[i][1].d = 1000

\* C21: when the snippet selected by process_neural_data2 spans no time (a
\* source with a single sample, or with all timestamps equal), the failure
\* marker is written and no sample table, by decode_binary_files and by
\* decode_ble_log.
C21_ZeroSpanIsNoData ==
    (variant = PND2 /\ pc = "done" /\ report # "error" /\ all_rows # <<>>) =>
        LET snippet_df == Snippet(variant, all_rows)
        IN  (snippet_df # <<>> /\ MaxTs(snippet_df) <= MinTs(snippet_df))
                => output_file = FailedCsv

----------------------------------------------------------------------------
(* Properties of the analysis *)

\* the file of the unit with the key (config, sf)
FileOfKey(key) == csv_files[output_path[<<key[2], key[1]>>]]

\* what the loop over the results stores for a returned value that may be None
OrZero(value) == IF value # None THEN value[1] ELSE 0

\* C17: for a unit whose CSV is the failure marker the analysis stores the
\* actual packet count (the throughput in process_neural_data) 0 and the
\* packet loss expected_packets[sf], which is what it stores for a table
\* without rows; no function raises, so every unit gets its entries.
C17_FailureMarkerAsZeroRows ==
    pc = "analysed" =>
        /\ DOMAIN throughput_data = ResultKeys
        /\ DOMAIN packet_loss_data = ResultKeys
        /\ \A key \in ResultKeys :
              FileOfKey(key) = FailedCsv =>
                  LET expected == expected_packets[key[2]]
                  IN  /\ throughput_data[key] = [expected |-> expected, actual |-> 0]
                      /\ packet_loss_data[key] = expected
                      /\ throughput_data[key].actual =
                            OrZero(IF variant = PND2
                                   THEN calculate_actual_packets(HeaderOnly)
                                   ELSE calculate_throughput(HeaderOnly))
                      /\ packet_loss_data[key] = calculate_packet_loss(HeaderOnly, expected)
                      /\ variant = PND2 =>
                            /\ average_time_data[key] = None
                            /\ average_time_data[key] = calculate_average_time(HeaderOnly)

\* the analysis is over with a sample table at one unit that is no failed
\* case, next to failure markers at units in and out of the failed cases
C17_Witness ==
    /\ pc = "analysed"
    /\ \E a \in ResultKeys, b \in ResultKeys, c \in ResultKeys :
          /\ <<a[2], a[1]>> \notin failed_cases
          /\ FileOfKey(a) = FailedCsv
          /\ expected_packets[a[2]] > 0
          /\ packet_loss_data[a] = expected_packets[a[2]]
          /\ <<b[2], b[1]>> \in failed_cases
          /\ FileOfKey(b) = FailedCsv
          /\ FileOfKey(c).rows # <<>>
          /\ packet_loss_data[c] < expected_packets[c[2]]

\* C29: a unit whose CSV is the failure marker is not the highest stable
\* sampling frequency analyze_stability returns for its configuration, also
\* when no file of the frequency gives a duration.
C29_FailureMarkerNeverStable ==
    pc = "analysed" =>
        \A key \in ResultKeys :
            FileOfKey(key) = FailedCsv =>
                analyze_stability(packet_loss_data,
                                  MAX_ALLOWED_PACKET_LOSS(variant))[key[1]]
                    # <<key[2]>>

\* the output paths of the units of file_mapping are pairwise different
PathsDistinct ==
    \A i \in 1..Len(AllUnits), j \in 1..Len(AllUnits) :
        i # j => output_path[AllUnits[i]] # output_path[AllUnits[j]]

\* process_configuration_updated(args_tuple), from the file at the path of
\* the unit of the task alone
OwnResult(task) ==
    LET file == csv_files[output_path[<<task.sf, task.config>>]]
    IN  <<task.config, task.sf,
          IF variant = PND2 THEN calculate_actual_packets(file)
          ELSE calculate_throughput(file),
          calculate_packet_loss(file, task.expected_packets[task.sf])>>
        \o (IF variant = PND2 THEN <<calculate_average_time(file)>> ELSE <<>>)

\* C19: no two units of the mapping have the same output path, and the
\* workers share nothing: a worker reads the file of the unit of its task
\* only, no two workers run the same task, every result is what
\* process_configuration_updated gives for the unit's own file however the
\* workers interleave, and a step of a worker changes that worker and the
\* result of its task and nothing else, no file included.
C19_UnitsIndependent ==
    /\ [](/\ PathsDistinct
          /\ \A w \in DOMAIN pool :
                pool[w].pc # "idle" =>
                    /\ results[pool[w].task].state = "running"
                    /\ pool[w].csv_file =
                          output_path[<<args_list[pool[w].task].sf,
                                        args_list[pool[w].task].config>>]
                    /\ \A x \in DOMAIN pool \ {w} : pool[x].task # pool[w].task
          /\ \A i \in DOMAIN results :
                results[i].state = "done" => results[i].value = OwnResult(args_list[i]))
    /\ [][pc = "map" /\ pc' = "map" =>
             /\ csv_files' = csv_files
             /\ \E w \in DOMAIN pool :
                   /\ \A x \in DOMAIN pool \ {w} : pool'[x] = pool[x]
                   /\ \A i \in DOMAIN results :
                         results'[i] # results[i] => i \in {pool[w].task, pool'[w].task}]_vars

\* two workers are inside different tasks, one on a sample table and one on
\* a failure marker, and a result has come in
C19_Witness ==
    /\ pc = "map"
    /\ pool[1].pc = "loss"
    /\ pool[2].pc = "actual"
    /\ csv_files[pool[1].csv_file].rows # <<>>
    /\ csv_files[pool[2].csv_file] = FailedCsv
    /\ \E i \in DOMAIN results : results[i].state = "done"

----------------------------------------------------------------------------
(* Properties of parse_log_file *)

\* the datetimes of the lines of the log that match the pattern, in the
\* order of the file
EventTimes(lines) ==
    LET events == SelectSeq(lines, LAMBDA line : match(line) /\ strptime(line.stamp) # <<>>)
    IN  [i \in 1..Len(events) |-> strptime(events[i].stamp)[1]]

\* C30: parse_log_file returns the empty list when the log is missing or
\* holds no 'Attribute value changed' event; all the events in file order
\* when the last event is at most SNIPPET_DURATION_SECONDS after the first;
\* and otherwise the events t with |t - midpoint| <= half the duration, the
\* midpoint lying halfway between the first and the last event.  Every
\* datetime returned is the one of a line that matches the pattern.
C30_MiddleSnippetOfEvents ==
    (func = "parse_log_file" /\ pc \notin {"open", "for_line"}) =>
        LET events == EventTimes(log_file.lines)
            W == SNIPPET_DURATION_SECONDS * 1000000
        IN  /\ \A i \in 1..Len(Returned) :
                  \E k \in 1..Len(log_file.lines) :
                      /\ match(log_file.lines[k])
                      /\ strptime(log_file.lines[k].stamp) = <<Returned[i]>>
            /\ (log_file.kind # "file" \/ events = <<>>) => Returned = <<>>
            /\ (log_file.kind = "file" /\ events # <<>>) =>
                  IF events[Len(events)] - events[1] <= W
                  THEN Returned = events
                  ELSE Returned =
                         SelectSeq(events,
                                   LAMBDA t :
                                     /\ 2 * t >= events[1] + events[Len(events)] - W
                                     /\ 2 * t <= events[1] + events[Len(events)] + W)

\* a log of four events 20.002 s long: the event 15.001 s after the first,
\* on the end of the window, is returned and the one at 15.002 s is dropped
C30_Witness ==
    /\ func = "parse_log_file"
    /\ pc = "return timestamps"
    /\ Len(all_events) = 4
    /\ all_events[4] = all_events[1] + 20002000
    /\ all_events[3] = all_events[1] + 15002000
    /\ Returned = <<all_events[1] + 15001000>>

====
